---- MODULE Spec2Model ----
(***************************************************************************)
(* Glimpse change-detection and coalescing pipeline.                       *)
(*                                                                         *)
(* Processes (goroutines) of cmd main (src/unnamed/part_001) and of the    *)
(* watcher package (src/watcher/watcher.go, last revision, lines 195-357): *)
(*   - the watcher worker started by Watcher.Start,                        *)
(*   - the batcher goroutine started by startBatcher,                      *)
(*   - the main select loop (git ticker, signal).                          *)
(* Time is discrete: Tick advances the running timer of the batcher by one *)
(* unit; durations are counted in ticks.                                   *)
(***************************************************************************)
EXTENDS Integers, Sequences, FiniteSets, TLC

\* ----------------------------------------------------------------- bounds
\* number of OS notifications the environment delivers in one run
MaxEvents == 4
\* number of distinct non-empty staged-state hashes the provider can return
NumHashes == 2
\* maxBatchSize (part_001:28 sets 100); scaled down so that size-triggered
\* flushes happen within MaxEvents notifications
maxBatchSize == 3
\* number of pieces (characters and editor suffixes/prefixes) a path is built of
MaxPieces == 3
\* make(chan FileEvent, 100) (watcher.go:218), scaled down so that the worker
\* finds the queue full within MaxRaw notifications
EventsChanCap == 2
\* number of OS notifications with a path that the worker receives in one run
MaxRaw == 3
\* number of OS notifications in a run long enough to fill the batch channel
MaxStream == 6
\* length of the log file in characters
MaxContent == 5
\* largest value of config.Lines
MaxLines == 3
\* bufio.MaxScanTokenSize (64 * 1024), scaled down
MaxScanTokenSize == 3
\* number of patterns in config.Watch
MaxPatterns == 2
\* number of files (event paths, staged files) a trigger carries
MaxFiles == 2
\* number of firings of gitTicker that main handles in one run
MaxTicks == 3
\* number of notifications the per-file-debounce worker handles in one run
MaxFsEvents == 3
\* number of errors the OS layer reports in one run
MaxErrors == 1
\* cfg.GetDebounceDuration() in ticks (configuration value)
debounce == 2
\* idleTimerDuration (part_001:29 sets time.Hour) in ticks, scaled down
idleTimerDuration == 3

\* ------------------------------------------------------ program constants
\* make(chan []watcher.FileEvent, 5)
BatchChanCap == 5
\* the empty string, initial value of lastStagedHash
NoHash == 0
\* make(chan string, 100)
DebounceChanCap == 100
\* make(chan FileEvent, 100)
FileEventsCap == 100
\* "no successful poll so far" (history only)
NoPoll == 0 - 1

VARIABLES
    osCount,        \* OS notifications delivered to the watcher worker so far
    evCount,        \* FileEvents the worker has built so far; the n-th one is event n
    wPc,            \* watcher worker: "select" | "send" | "exited"
    wEv,            \* event the worker is about to send (0: none)
    watcherClosed,  \* fsnotify watcher closed (Watcher.Close)
    events,         \* w.events channel buffer (FileEvent occurrences, by id)
    batch,          \* batcher local: var batch []watcher.FileEvent
    bPc,            \* batcher: "select" | "sendDone" | "sendSize" | "sendTimer" | "exited"
    timer,          \* batcher timer: [left: ticks to expiry (0: not running), c: value in timer.C,
                    \*                 dur: the duration it was last set to]
    out,            \* batchChan buffer
    done,           \* done channel closed
    mainPc,         \* main: "loop" | "state" | "diff" (inside a fetch) | "closing" | "closed" | "exited"
    lastStagedHash, \* main local: var lastStagedHash string
    \* ---- history (observation only, never read by the program) ----
    received,       \* events the batcher has received, in order
    emitted,        \* batches the batcher has sent on out, in order
    sinceLast,      \* ticks since the batcher last received an event (saturates at debounce)
    rapid,          \* every event so far was received < debounce after the previous one
    last,           \* branch the batcher executed last
    doneSeen,       \* snapshot taken when the batcher observes done
    lastPoll,       \* what the last git tick of main did
    \* ---- Watcher.normalizePath applied to one path ----
    pathPc,         \* "start", "once" (normalized), "twice" (normalized again)
    path,           \* the argument (a string is a sequence of characters)
    normalized,     \* normalizePath(path)
    renormalized,   \* normalizePath(normalizePath(path))
    \* ---- the watcher worker with paths ----
    wErrs,          \* errors received from w.watcher.Errors so far
    accepted,       \* accepted[n] is the FileEvent that event n stands for (history)
    \* ---- watcher.New ----
    newPc,          \* "start" | "loop" | "failed" (no fsnotify watcher) | "returned"
    watch,          \* config.Watch
    patIdx,         \* index of the pattern the loop handles next
    addedDirs,      \* the addedDirs map, as the set of its keys
    addCalls,       \* the calls of w.watcher.Add so far, in order (history)
    newErr,         \* the error New returned
    \* ---- the trigger the dispatcher handled last ----
    trigKind,       \* "none" | "batch" (processBatch) | "staged" (processStagedChange)
    trigFiles,      \* the event paths of the batch, or state.StagedFiles
    logFile,        \* cfg.Logs.File
    cfgIgnore,      \* cfg.Ignore
    keptFiles,      \* the files left after the isIgnoredFile filter
    diffFetched,    \* git.GetDiff or git.GetStagedDiff was called
    logTailed,      \* logTailer.Tail was called
    launched,       \* launchLLMAsync was called
    \* ---- main's loop with its calls and the detached generation tasks ----
    ticks,          \* firings of gitTicker handled so far
    polled,         \* hash of the state processStagedChange is working on (NoHash: none)
    reqCount,       \* generation requests launched so far; the n-th one is request n
    inflight,       \* requests whose detached task has not ended
    printed,        \* what the tasks printed, in order: [req, err]
    actionable,     \* triggers that reached the launch of a request (history)
    aborted,        \* hash of the last cycle given up on a diff error (history)
    \* ---- Watcher.Start of the revision with one debounce timer per file ----
    fsCount,        \* notifications the worker has received so far; the n-th one creates timer n
    timers,         \* timers[n]: [st, left, path] of the timer time.AfterFunc made for notification n
    debounceTimers, \* the debounceTimers map: path -> timer (NoTimer: no entry)
    debounceChan,   \* debounceChan buffer
    fileEvents,     \* w.events buffer: the paths of the FileEvents sent
    since,          \* since[p]: ticks since the last notification for p (saturates at debounce; history)
    bursts,         \* bursts[p]: bursts of notifications for p so far (history)
    crashed,        \* the runtime has stopped the process with a fatal error
    \* ---- one call of Tailer.Tail ----
    tailPc,         \* "start" | "returned"
    logState,       \* the log file: "ok", "missing" (os.Open fails), "ioerror" (a read fails)
    logContent,     \* the content of the log file
    cfgLines,       \* t.config.Lines
    tailResult,     \* the string Tail returned
    tailErr,        \* Tail returned an error
    \* ---- one call of parseFixResponse ----
    fixPc,          \* "start" | "returned"
    fixContent,     \* the argument content
    needFix,        \* the result needFix
    review,         \* the result review
    fixErr,         \* the call returned an error
    \* ---- one call of Client.Generate with its worker, spinner and caller ----
    genPc,          \* the worker: "idle" (Generate not called) | "start" | "senderr" | "api" | "stop" | "send" | "exited"
    reqStream,      \* req.Stream
    rendererOk,     \* ui.NewMarkdownRenderer succeeds in this process
    provider,       \* c.config.Provider
    apiErr,         \* err after the provider switch
    respChan,       \* respChan buffer: the Error of each response, as "nil" | "renderer" | "unsupported" | "api"
    respClosed,     \* respChan is closed
    spinnerNil,     \* spinnerChan == nil
    spinnerChan,    \* spinnerChan buffer
    spinPc,         \* the spinner goroutine: "none" | "running" | "returned"
    spinFrames,     \* frames the spinner printed so far
    got,            \* what the caller received from respChan, in order ("closed": the zero value of a closed channel)
    sends           \* sends on respChan the worker completed (history)

pipeVars == <<osCount, evCount, wPc, wEv, watcherClosed, events, batch, bPc, timer, out,
              done, mainPc, lastStagedHash, received, emitted, sinceLast, rapid,
              last, doneSeen, lastPoll>>
pathVars == <<pathPc, path, normalized, renormalized>>
\* what the goroutines of the pipeline never touch
watchVars == <<wErrs, accepted>>
newVars == <<newPc, watch, patIdx, addedDirs, addCalls, newErr>>
dispVars == <<trigKind, trigFiles, logFile, cfgIgnore, keptFiles, diffFetched, logTailed, launched>>
loopVars == <<ticks, polled, reqCount, inflight, printed, actionable, aborted>>
debVars == <<fsCount, timers, debounceTimers, debounceChan, fileEvents, since, bursts, crashed>>
tailVars == <<tailPc, logState, logContent, cfgLines, tailResult, tailErr>>
fixVars == <<fixPc, fixContent, needFix, review, fixErr>>
genVars == <<genPc, reqStream, rendererOk, provider, apiErr, respChan, respClosed,
             spinnerNil, spinnerChan, spinPc, spinFrames, got, sends>>
sideVars == <<pathVars, watchVars, newVars, dispVars, loopVars, debVars, tailVars, fixVars, genVars>>
\* what a call of normalizePath, the watcher worker, New, the dispatcher,
\* main's loop, the per-file debounce leave alone
pathRest == <<pipeVars, watchVars, newVars, dispVars, loopVars, debVars, tailVars, fixVars, genVars>>
watchRest == <<pathVars, newVars, dispVars, loopVars, debVars, tailVars, fixVars, genVars>>
newRest == <<pipeVars, pathVars, watchVars, dispVars, loopVars, debVars, tailVars, fixVars, genVars>>
dispRest == <<pipeVars, pathVars, watchVars, newVars, loopVars, debVars, tailVars, fixVars, genVars>>
debRest == <<pipeVars, pathVars, watchVars, newVars, dispVars, loopVars, tailVars, fixVars, genVars>>
tailRest == <<pipeVars, pathVars, watchVars, newVars, dispVars, loopVars, debVars, fixVars, genVars>>
fixRest == <<pipeVars, pathVars, watchVars, newVars, dispVars, loopVars, debVars, tailVars, genVars>>
genRest == <<pipeVars, pathVars, watchVars, newVars, dispVars, loopVars, debVars, tailVars, fixVars>>

vars == <<pipeVars, sideVars>>

watcherVars == <<osCount, evCount, wPc, wEv, events>>
batcherVars == <<batch, bPc, timer, out>>
mainVars    == <<done, mainPc, lastStagedHash, watcherClosed>>
histVars    == <<received, emitted, sinceLast, rapid, last, doneSeen>>
loopRest == <<watcherVars, batcherVars, done, watcherClosed, histVars, lastPoll,
              pathVars, watchVars, newVars, dispVars, debVars, tailVars, fixVars, genVars>>

\* ------------------------------------------------------------ helpers
Min(a, b) == IF a < b THEN a ELSE b

RECURSIVE Flatten(_)
Flatten(ss) == IF ss = <<>> THEN <<>> ELSE Head(ss) \o Flatten(Tail(ss))

Count(e, s) == Cardinality({i \in 1..Len(s) : s[i] = e})

\* the process is alive until main has returned and its deferred calls ran
Alive == mainPc # "exited"

\* stopAndDrain(t): t.Stop(), and a non-blocking receive from t.C
stopAndDrain(t) == [left |-> 0, c |-> FALSE, dur |-> t.dur]

\* t.Reset(d): the timer runs for d ticks from now; no stale value stays in
\* t.C (Go 1.23+ timer channels, CRUSH.md: Go 1.25+)
Reset(t, d) == [left |-> d, c |-> FALSE, dur |-> d]

\* time.NewTimer(d)
NewTimer(d) == [left |-> d, c |-> FALSE, dur |-> d]

NoDoneSeen == [seen |-> FALSE, pending |-> <<>>, emitted |-> <<>>, closed |-> FALSE]
NoPollYet  == [ticked |-> FALSE, ok |-> FALSE, hash |-> NoHash, prev |-> NoPoll,
               trig |-> FALSE, base |-> NoHash]

\* ------------------------------------------------------------ strings and paths
\* A string is a sequence of one-character strings.
Slash == <<"/">>
Dot   == <<".">>

\* the pieces paths are put together from
Pieces == { <<"a">>, Slash, <<"~">>, <<".", "s", "w", "p">>, <<".", "t", "m", "p">>,
            <<".", "#">>, <<"#">>, Dot }

RECURSIVE PathsOf(_)
\* every string made of at most n pieces
PathsOf(n) ==
    IF n = 0 THEN { <<>> }
    ELSE LET shorter == PathsOf(n - 1)
         IN shorter \cup { q \o t : q \in shorter, t \in Pieces }

Paths == PathsOf(MaxPieces) \ { <<>> }

\* strings.HasSuffix
HasSuffix(s, suffix) ==
    /\ Len(s) >= Len(suffix)
    /\ SubSeq(s, Len(s) - Len(suffix) + 1, Len(s)) = suffix

\* strings.HasPrefix
HasPrefix(s, prefix) ==
    /\ Len(s) >= Len(prefix)
    /\ SubSeq(s, 1, Len(prefix)) = prefix

\* strings.TrimSuffix
TrimSuffix(s, suffix) ==
    IF HasSuffix(s, suffix) THEN SubSeq(s, 1, Len(s) - Len(suffix)) ELSE s

\* strings.TrimPrefix
TrimPrefix(s, prefix) ==
    IF HasPrefix(s, prefix) THEN SubSeq(s, Len(prefix) + 1, Len(s)) ELSE s

\* index of the last "/" of s, 0 if there is none
LastSlash(s) ==
    LET at == { i \in 1..Len(s) : s[i] = "/" }
    IN IF at = {} THEN 0 ELSE CHOOSE i \in at : \A j \in at : j <= i

\* index of the first "/" of s, 0 if there is none
FirstSlash(s) ==
    LET at == { i \in 1..Len(s) : s[i] = "/" }
    IN IF at = {} THEN 0 ELSE CHOOSE i \in at : \A j \in at : i <= j

RECURSIVE SplitSlash(_)
\* strings.Split(s, "/")
SplitSlash(s) ==
    LET i == FirstSlash(s)
    IN IF i = 0 THEN <<s>>
       ELSE <<SubSeq(s, 1, i - 1)>> \o SplitSlash(SubSeq(s, i + 1, Len(s)))

RECURSIVE JoinSlash(_)
\* strings.Join(elems, "/")
JoinSlash(elems) ==
    IF elems = <<>> THEN <<>>
    ELSE IF Len(elems) = 1 THEN elems[1]
    ELSE elems[1] \o Slash \o JoinSlash(Tail(elems))

RECURSIVE CleanElems(_, _, _)
\* the elements filepath.Clean keeps: "" and "." are dropped, ".." removes the
\* element before it, is dropped at the root and kept at the start otherwise
CleanElems(elems, kept, rooted) ==
    IF elems = <<>> THEN kept
    ELSE LET e == Head(elems)
             rest == Tail(elems)
         IN IF e = <<>> \/ e = Dot THEN CleanElems(rest, kept, rooted)
            ELSE IF e = <<".", ".">>
            THEN IF kept # <<>> /\ kept[Len(kept)] # <<".", ".">>
                 THEN CleanElems(rest, SubSeq(kept, 1, Len(kept) - 1), rooted)
                 ELSE IF rooted THEN CleanElems(rest, kept, rooted)
                 ELSE CleanElems(rest, Append(kept, e), rooted)
            ELSE CleanElems(rest, Append(kept, e), rooted)

\* filepath.Clean (Unix)
Clean(s) ==
    IF s = <<>> THEN Dot
    ELSE LET rooted == s[1] = "/"
             body == JoinSlash(CleanElems(SplitSlash(s), <<>>, rooted))
             res == IF rooted THEN Slash \o body ELSE body
         IN IF res = <<>> THEN Dot ELSE res

RECURSIVE TrimSlashes(_)
\* s without its trailing slashes
TrimSlashes(s) ==
    IF s # <<>> /\ s[Len(s)] = "/" THEN TrimSlashes(SubSeq(s, 1, Len(s) - 1)) ELSE s

\* filepath.Base (Unix)
Base(s) ==
    IF s = <<>> THEN Dot
    ELSE LET t == TrimSlashes(s)
             b == SubSeq(t, LastSlash(t) + 1, Len(t))
         IN IF b = <<>> THEN Slash ELSE b

\* filepath.Dir (Unix)
Dir(s) == Clean(SubSeq(s, 1, LastSlash(s)))

\* filepath.Join(a, b): the elements from the first non-empty one on, joined
\* by "/" and cleaned
Join(a, b) ==
    IF a # <<>> THEN Clean(a \o Slash \o b)
    ELSE IF b # <<>> THEN Clean(b)
    ELSE <<>>

Tilde == <<"~">>
Swp   == <<".", "s", "w", "p">>
Tmp   == <<".", "t", "m", "p">>
Lock  == <<".", "#">>
Hash  == <<"#">>

normalizePath_LockFirst(p) ==
    IF HasPrefix(Base(p), Lock)
    THEN Join(Dir(p), TrimPrefix(Base(p), Lock))
    ELSE IF HasSuffix(p, Tilde) THEN TrimSuffix(p, Tilde)
    ELSE IF HasSuffix(p, Swp) THEN TrimSuffix(p, Swp)
    ELSE IF HasSuffix(p, Tmp) THEN TrimSuffix(p, Tmp)
    ELSE IF HasPrefix(Base(p), Hash) /\ HasSuffix(Base(p), Hash)
    THEN Join(Dir(p), TrimSuffix(TrimPrefix(Base(p), Hash), Hash))
    ELSE p

\* (w *Watcher) normalizePath
normalizePath(p) ==
    IF HasSuffix(p, Tilde) THEN TrimSuffix(p, Tilde)
    ELSE IF HasSuffix(p, Swp) THEN TrimSuffix(p, Swp)
    ELSE IF HasSuffix(p, Tmp) THEN TrimSuffix(p, Tmp)
    ELSE IF HasPrefix(Base(p), Lock)
    THEN Join(Dir(p), TrimPrefix(Base(p), Lock))
    ELSE IF HasPrefix(Base(p), Hash) /\ HasSuffix(Base(p), Hash)
    THEN Join(Dir(p), TrimSuffix(TrimPrefix(Base(p), Hash), Hash))
    ELSE p

RECURSIVE Match(_, _)
\* filepath.Match for patterns of literal characters, "*" and "?"
Match(pattern, name) ==
    IF pattern = <<>> THEN name = <<>>
    ELSE IF Head(pattern) = "*"
    THEN \E k \in 0..Len(name) :
            /\ \A i \in 1..k : name[i] # "/"
            /\ Match(Tail(pattern), SubSeq(name, k + 1, Len(name)))
    ELSE /\ name # <<>>
         /\ IF Head(pattern) = "?" THEN Head(name) # "/" ELSE Head(pattern) = Head(name)
         /\ Match(Tail(pattern), Tail(name))

\* w.config.Ignore of the run
Ignore == { <<"*", ".", "l">> }

\* (w *Watcher) shouldIgnore
shouldIgnore(p) == \E pattern \in Ignore : Match(pattern, Base(p))

\* event.Name of the notifications the OS layer delivers
RawPaths == { <<"a">>, <<"a", "~">>, <<"b", ".", "l">> }

\* event.Name of notifications for an ignored file and its editor artifact
ArtifactPaths == { <<"b", ".", "l">>, <<"b", ".", "l", "~">>, <<"a">> }

FileEventOf_Raw(raw) == [raw |-> raw, path |-> raw]

\* FileEvent{Path: normalizedPath} built for a notification; raw is kept for
\* observation only
FileEventOf(raw) == [raw |-> raw, path |-> normalizePath(raw)]

\* ------------------------------------------------------------ per-file debounce (earlier revision)
\* event.Name of the notifications: a file, its backup copy, another file, a
\* file that config.Ignore matches
DebRawPaths == { <<"a">>, <<"a", "~">>, <<"c">>, <<"b", ".", "l">> }

\* the keys the debounceTimers map can get
DebKeys == { normalizePath(raw) : raw \in { r \in DebRawPaths : ~shouldIgnore(r) } }

\* no entry in debounceTimers
NoTimer == 0

\* a timer that time.AfterFunc has not made yet
NoTimerYet == [st |-> "none", left |-> 0, path |-> <<>>]

\* timer.Stop(): a running timer is stopped, a timer that has fired stays so
StopTimer(t) == IF t.st = "armed" THEN [t EXCEPT !.st = "stopped", !.left = 0] ELSE t

\* time.AfterFunc(w.config.Debounce, func() {...}) for path p
AfterFunc(p) == [st |-> "armed", left |-> debounce, path |-> p]

\* ------------------------------------------------------------ patterns and directories
\* index of the first occurrence of "**" in s, 0 if there is none
IndexStars(s) ==
    LET at == { i \in 1..(Len(s) - 1) : s[i] = "*" /\ s[i + 1] = "*" }
    IN IF at = {} THEN 0 ELSE CHOOSE i \in at : \A j \in at : i <= j

\* strings.Contains(pattern, "**")
IsRecursive(pattern) == IndexStars(pattern) > 0

\* strings.Split(pattern, "**")[0], TrimSuffix "/", "" becomes "."
BaseDirOf(pattern) ==
    LET prefix == TrimSuffix(SubSeq(pattern, 1, IndexStars(pattern) - 1), Slash)
    IN IF prefix = <<>> THEN Dot ELSE prefix

\* the directories and files of the working directory
FsDirs == { Dot, <<"s">> }
FsFiles == { <<"s", "/", "a">>, <<"s", "/", "b">> }

\* filepath.Glob reports ErrBadPattern for a malformed pattern
BadPattern(pattern) ==
    /\ \E i \in DOMAIN pattern : pattern[i] = "["
    /\ \A i \in DOMAIN pattern : pattern[i] # "]"

\* filepath.Glob: the existing paths that match the pattern
Glob(pattern) == { e \in (FsDirs \ {Dot}) \cup FsFiles : Match(pattern, e) }

\* the directory watched for a match: the match itself, or its parent when
\* os.Stat says it is a file
WatchDirOf(match) == IF match \in FsFiles THEN Dir(match) ELSE match

\* the patterns config.Watch is made of
Patterns == { <<"*", "*">>, <<"s", "/", "*", "*">>, <<"s", "/", "*", "*", "/", "a">>,
              <<"s", "/", "*">>, <<"s">>, <<"z", "/", "*">>, <<"q", "/", "*", "*">>,
              <<"[">> }

RECURSIVE WatchLists(_)
\* the lists of at most n patterns
WatchLists(n) ==
    IF n = 0 THEN { <<>> }
    ELSE LET shorter == WatchLists(n - 1)
         IN shorter \cup { Append(l, q) : l \in shorter, q \in Patterns }

\* w.watcher.Add(dir) can succeed only for a directory that exists
CanAdd(dir) == dir \in FsDirs

\* ------------------------------------------------------------ Tailer.Tail
Newline == "\n"

\* the characters of a log file (no carriage returns)
LogChars == { "x", "y", Newline }

RECURSIVE ContentsOf(_)
\* every content of at most n characters
ContentsOf(n) ==
    IF n = 0 THEN { <<>> }
    ELSE LET shorter == ContentsOf(n - 1)
         IN shorter \cup { Append(c, ch) : c \in shorter, ch \in LogChars }

RECURSIVE ScanLines(_)
\* the tokens bufio.ScanLines cuts a content into: a newline ends a line, the
\* text after the last newline is a line if it is not empty
ScanLines(c) ==
    LET at == { i \in DOMAIN c : c[i] = Newline }
    IN IF c = <<>> THEN <<>>
       ELSE IF at = {} THEN <<c>>
       ELSE LET i == CHOOSE k \in at : \A j \in at : k <= j
            IN <<SubSeq(c, 1, i - 1)>> \o ScanLines(SubSeq(c, i + 1, Len(c)))

\* scanner.Err() after the loop for a file that can be read: the scanner gives
\* up with ErrTooLong on a line that does not fit its buffer
ScanTooLong(c) ==
    \E i \in DOMAIN ScanLines(c) : Len(ScanLines(c)[i]) >= MaxScanTokenSize

RECURSIVE JoinNewline(_)
\* strings.Join(lines, "\n")
JoinNewline(lines) ==
    IF lines = <<>> THEN <<>>
    ELSE IF Len(lines) = 1 THEN lines[1]
    ELSE lines[1] \o <<Newline>> \o JoinNewline(Tail(lines))

\* start := 0; if len(lines) > t.config.Lines { start = len(lines) - t.config.Lines }
TailStart(lines, n) == IF Len(lines) > n THEN Len(lines) - n ELSE 0

\* recentLines := lines[start:]
RecentLines(lines, n) == SubSeq(lines, TailStart(lines, n) + 1, Len(lines))

\* strings.Contains
Contains(s, sub) ==
    \E i \in 0..(Len(s) - Len(sub)) : SubSeq(s, i + 1, i + Len(sub)) = sub

\* ------------------------------------------------------------ parseFixResponse
MaxFixPieces == 3
\* what a response is made of: white space, headers in several letter cases,
\* a header followed by more text, keywords, other text
FixPieces == { <<" ">>, <<Newline>>,
               <<"N", "E", "E", "D", " ", "F", "I", "X", ":", " ", "Y", "E", "S">>,
               <<"n", "e", "e", "d", " ", "f", "i", "x", ":", " ", "n", "o">>,
               <<"N", "e", "e", "d", " ", "F", "i", "x", ":", " ", "N", "o", ".">>,
               <<"L", "o", "o", "k", "s", " ", "G", "o", "o", "d">>,
               <<"n", "o", " ", "i", "s", "s", "u", "e", "s">>,
               <<"b", "u", "g">> }

RECURSIVE FixContentsOf(_)
\* every response of at most n pieces
FixContentsOf(n) ==
    IF n = 0 THEN { <<>> }
    ELSE LET shorter == FixContentsOf(n - 1)
         IN shorter \cup { c \o piece : c \in shorter, piece \in FixPieces }

LowerLetters == <<"a", "b", "c", "d", "e", "f", "g", "h", "i", "j", "k", "l", "m", "n", "o", "p", "q", "r", "s", "t", "u", "v", "w", "x", "y", "z">>
UpperLetters == <<"A", "B", "C", "D", "E", "F", "G", "H", "I", "J", "K", "L", "M", "N", "O", "P", "Q", "R", "S", "T", "U", "V", "W", "X", "Y", "Z">>
\* unicode.ToUpper, unicode.ToLower on one character
ToUpperChar(c) ==
    IF \E i \in DOMAIN LowerLetters : LowerLetters[i] = c
    THEN UpperLetters[CHOOSE i \in DOMAIN LowerLetters : LowerLetters[i] = c]
    ELSE c
ToLowerChar(c) ==
    IF \E i \in DOMAIN UpperLetters : UpperLetters[i] = c
    THEN LowerLetters[CHOOSE i \in DOMAIN UpperLetters : UpperLetters[i] = c]
    ELSE c
\* strings.ToUpper, strings.ToLower
ToUpper(s) == [i \in DOMAIN s |-> ToUpperChar(s[i])]
ToLower(s) == [i \in DOMAIN s |-> ToLowerChar(s[i])]

\* unicode.IsSpace on the characters a response has
IsSpace(c) == c \in { " ", Newline, "\t", "\r" }
\* strings.TrimSpace: the string without its leading and trailing white space
TrimSpace(s) ==
    LET solid == { i \in DOMAIN s : ~IsSpace(s[i]) }
    IN IF solid = {} THEN <<>>
       ELSE SubSeq(s, CHOOSE i \in solid : \A j \in solid : i <= j,
                      CHOOSE i \in solid : \A j \in solid : i >= j)

RECURSIVE SplitNewline(_)
\* strings.Split(s, "\n"): one more field than there are newlines
SplitNewline(s) ==
    LET at == { i \in DOMAIN s : s[i] = Newline }
    IN IF at = {} THEN <<s>>
       ELSE LET i == CHOOSE k \in at : \A j \in at : k <= j
            IN <<SubSeq(s, 1, i - 1)>> \o SplitNewline(SubSeq(s, i + 1, Len(s)))

\* the loop over lines: the index (from 1) of the first line that is not
\* empty once trimmed; 1 when there is none (headerLine stays 0)
HeaderLine(lines) ==
    LET full == { i \in DOMAIN lines : TrimSpace(lines[i]) # <<>> }
    IN IF full = {} THEN 1 ELSE CHOOSE i \in full : \A j \in full : i <= j
\* header: that line trimmed, "" when there is none
Header(lines) ==
    IF \E i \in DOMAIN lines : TrimSpace(lines[i]) # <<>>
    THEN TrimSpace(lines[HeaderLine(lines)])
    ELSE <<>>

NeedFixYes == <<"N", "E", "E", "D", " ", "F", "I", "X", ":", " ", "Y", "E", "S">>
NeedFixNo == <<"N", "E", "E", "D", " ", "F", "I", "X", ":", " ", "N", "O">>
noIssuesKeywords == { <<"n", "o", " ", "i", "s", "s", "u", "e", "s">>,
                      <<"l", "o", "o", "k", "s", " ", "g", "o", "o", "d">>,
                      <<"e", "v", "e", "r", "y", "t", "h", "i", "n", "g", " ", "i", "s", " ", "f", "i", "n", "e">>,
                      <<"n", "o", " ", "p", "r", "o", "b", "l", "e", "m", "s">>,
                      <<"a", "l", "l", " ", "g", "o", "o", "d">> }
\* hasNoIssues: some keyword is in the lower-cased content
HasNoIssues(content) == \E keyword \in noIssuesKeywords : Contains(ToLower(content), keyword)

\* which branch the header selects
HeaderYes(content) == HasPrefix(ToUpper(Header(SplitNewline(content))), NeedFixYes)
HeaderNo(content) == HasPrefix(ToUpper(Header(SplitNewline(content))), NeedFixNo)

\* strings.Join(lines[headerLine+1:], "\n")
AfterHeader(content) ==
    LET lines == SplitNewline(content)
    IN JoinNewline(SubSeq(lines, HeaderLine(lines) + 1, Len(lines)))

\* parseFixResponse without the keyword fallback: a response with no header
\* always needs a fix
parseFixResponse_NoFallback(content) ==
    IF TrimSpace(content) = <<>>
    THEN [needFix |-> FALSE, review |-> <<>>, err |-> TRUE]
    ELSE IF HeaderYes(content)
    THEN [needFix |-> TRUE, review |-> TrimSpace(AfterHeader(content)), err |-> FALSE]
    ELSE IF HeaderNo(content)
    THEN [needFix |-> FALSE, review |-> TrimSpace(AfterHeader(content)), err |-> FALSE]
    ELSE [needFix |-> TRUE, review |-> TrimSpace(content), err |-> FALSE]

\* parseFixResponse(content) as [needFix, review, err]
parseFixResponse(content) ==
    IF TrimSpace(content) = <<>>
    THEN [needFix |-> FALSE, review |-> <<>>, err |-> TRUE]
    ELSE IF HeaderYes(content)
    THEN [needFix |-> TRUE, review |-> TrimSpace(AfterHeader(content)), err |-> FALSE]
    ELSE IF HeaderNo(content)
    THEN [needFix |-> FALSE, review |-> TrimSpace(AfterHeader(content)), err |-> FALSE]
    ELSE [needFix |-> ~HasNoIssues(content), review |-> TrimSpace(content), err |-> FALSE]

\* ------------------------------------------------------------ isIgnoredFile
\* the values of cfg.Ignore: no pattern, one glob pattern (as in README.md)
IgnoreConfigs == { {}, { <<"*", ".", "t">> } }

\* the values of cfg.Logs.File: a path, a name, the empty string (not set)
LogFiles == { <<"g", "/", "l">>, <<"x">>, <<>> }

\* isIgnoredFile(file, cfg)
isIgnoredFile(file, log, ignore) ==
    \/ Contains(file, <<"/", ".", "g", "i", "t", "/">>)
    \/ HasPrefix(file, <<".", "g", "i", "t", "/">>)
    \/ Contains(file, log)
    \/ \E pattern \in ignore : Contains(file, pattern)

\* the paths a trigger is made of
TriggerFiles == { <<"a">>, <<"g", "/", "l">>, <<".", "g", "i", "t", "/", "x">>,
                  <<"b", ".", "t">> }

RECURSIVE FileLists(_)
\* the lists of at most n files
FileLists(n) ==
    IF n = 0 THEN { <<>> }
    ELSE LET shorter == FileLists(n - 1)
         IN shorter \cup { Append(l, f) : l \in shorter, f \in TriggerFiles }

\* the files of a list that isIgnoredFile lets through
Kept(files, log, ignore) ==
    { files[i] : i \in { j \in DOMAIN files : ~isIgnoredFile(files[j], log, ignore) } }

\* what the diff provider answers: an error, no diffs, or some diffs
DiffResults == { "error", "empty", "diffs" }

\* processBatch goes on to git.GetDiff unless len(fileSet) == 0
BatchFetchesDiff(fileSet) == fileSet # {}

\* ------------------------------------------------------------ conditions of startBatcher and main
BatchAppend_Prepend(b, ev) == <<ev>> \o b
\* batch = append(batch, ev)
BatchAppend(b, ev) == Append(b, ev)

SizeReached_Strict(b) == Len(b) > maxBatchSize
SizeReached_Never(b) == FALSE
\* if len(batch) >= maxBatchSize
SizeReached(b) == Len(b) >= maxBatchSize

ArmDebounce_NoDrain(t, b) == [left |-> debounce, c |-> t.c, dur |-> debounce]
ArmDebounce_FirstOnly(t, b) ==
    IF Len(b) = 1 THEN Reset(stopAndDrain(t), debounce) ELSE t
\* stopAndDrain(timer); timer.Reset(debounce), after the append made batch b
ArmDebounce(t, b) == Reset(stopAndDrain(t), debounce)

FlushOnTimer_Always(b) == TRUE
\* if len(batch) > 0     (timer branch)
FlushOnTimer(b) == Len(b) > 0

FlushOnDone_Never(b) == FALSE
\* if len(batch) > 0     (done branch)
FlushOnDone(b) == Len(b) > 0

StagedChanged_ErrIgnored(err, hash, lastHash) == hash # lastHash
\* if err == nil && state.Hash != lastStagedHash
StagedChanged(err, hash, lastHash) == ~err /\ hash # lastHash

\* ------------------------------------------------------------ Init
\* main has built the watcher, started the batcher and the watcher worker
\* and is about to enter its select loop (part_001:66-103)
Init ==
    /\ osCount = 0
    /\ evCount = 0
    /\ wPc = "select"
    /\ wEv = 0
    /\ watcherClosed = FALSE
    /\ events = <<>>
    /\ batch = <<>>
    /\ bPc = "select"
    /\ timer = NewTimer(idleTimerDuration)
    /\ out = <<>>
    /\ done = FALSE
    /\ mainPc = "loop"
    /\ lastStagedHash = NoHash
    /\ received = <<>>
    /\ emitted = <<>>
    /\ sinceLast = 0
    /\ rapid = TRUE
    /\ last = "none"
    /\ doneSeen = NoDoneSeen
    /\ lastPoll = NoPollYet
    /\ pathPc = "start"
    /\ path = <<>>
    /\ normalized = <<>>
    /\ renormalized = <<>>
    /\ wErrs = 0
    /\ accepted = <<>>
    /\ newPc = "start"
    /\ watch = <<>>
    /\ patIdx = 1
    /\ addedDirs = {}
    /\ addCalls = <<>>
    /\ newErr = FALSE
    /\ trigKind = "none"
    /\ trigFiles = <<>>
    /\ logFile = <<>>
    /\ cfgIgnore = {}
    /\ keptFiles = {}
    /\ diffFetched = FALSE
    /\ logTailed = FALSE
    /\ launched = FALSE
    /\ ticks = 0
    /\ polled = NoHash
    /\ reqCount = 0
    /\ inflight = {}
    /\ printed = <<>>
    /\ actionable = 0
    /\ aborted = NoHash
    /\ fsCount = 0
    /\ timers = [n \in 1..MaxFsEvents |-> NoTimerYet]
    /\ debounceTimers = [p \in DebKeys |-> NoTimer]
    /\ debounceChan = <<>>
    /\ fileEvents = <<>>
    /\ since = [p \in DebKeys |-> debounce]
    /\ bursts = [p \in DebKeys |-> 0]
    /\ crashed = FALSE
    /\ tailPc = "start"
    /\ logState = "ok"
    /\ logContent = <<>>
    /\ cfgLines = 0
    /\ tailResult = <<>>
    /\ tailErr = FALSE
    /\ fixPc = "start"
    /\ fixContent = <<>>
    /\ needFix = FALSE
    /\ review = <<>>
    /\ fixErr = FALSE
    /\ genPc = "idle"
    /\ reqStream = FALSE
    /\ rendererOk = TRUE
    /\ provider = "openai"
    /\ apiErr = "nil"
    /\ respChan = <<>>
    /\ respClosed = FALSE
    /\ spinnerNil = TRUE
    /\ spinnerChan = <<>>
    /\ spinPc = "none"
    /\ spinFrames = 0
    /\ got = <<>>
    /\ sends = 0

\* ------------------------------------------------------------ time
\* one unit of time passes: a running timer gets closer to its expiry and
\* delivers on timer.C when it reaches it
Tick ==
    /\ Alive
    /\ timer.left > 0 \/ sinceLast < debounce
    /\ timer' = IF timer.left > 0
                THEN [left |-> timer.left - 1, c |-> timer.c \/ timer.left = 1,
                      dur |-> timer.dur]
                ELSE timer
    /\ sinceLast' = Min(sinceLast + 1, debounce)
    /\ UNCHANGED <<watcherVars, batch, bPc, out, mainVars, received, emitted,
                   rapid, last, doneSeen, lastPoll,
                   sideVars>>

\* ------------------------------------------------------------ watcher worker
\* case event, ok := <-w.watcher.Events with ok: the filter either drops the
\* notification (continue) or the worker goes on to send the event
WatcherRecvUpTo(n) ==
    /\ Alive
    /\ wPc = "select"
    /\ ~watcherClosed
    /\ osCount < n
    /\ osCount' = osCount + 1
    /\ \E ignored \in BOOLEAN :
         IF ignored
         THEN UNCHANGED <<evCount, wPc, wEv>>
         ELSE wPc' = "send" /\ evCount' = evCount + 1 /\ wEv' = evCount + 1
    /\ UNCHANGED <<events, batcherVars, mainVars, histVars, lastPoll,
                   sideVars>>

\* the worker receives one of the MaxEvents notifications of a run
WatcherRecv == WatcherRecvUpTo(MaxEvents)

\* the worker receives one of the MaxStream notifications of a long run
WatcherRecvStream == WatcherRecvUpTo(MaxStream)

WatcherSend_Drop ==
    /\ Alive
    /\ wPc = "send"
    /\ events' = IF Len(events) < EventsChanCap THEN Append(events, wEv) ELSE events
    /\ wPc' = "select"
    /\ wEv' = 0
    /\ UNCHANGED <<osCount, evCount, batcherVars, mainVars, histVars, lastPoll,
                   sideVars>>

\* w.events <- FileEvent{Path: normalizedPath}: blocks while the buffer is full
WatcherSend ==
    /\ Alive
    /\ wPc = "send"
    /\ Len(events) < EventsChanCap
    /\ events' = Append(events, wEv)
    /\ wPc' = "select"
    /\ wEv' = 0
    /\ UNCHANGED <<osCount, evCount, batcherVars, mainVars, histVars, lastPoll,
                   sideVars>>

\* the fsnotify channels are closed: !ok, return
WatcherExit ==
    /\ Alive
    /\ wPc = "select"
    /\ watcherClosed
    /\ wPc' = "exited"
    /\ UNCHANGED <<osCount, evCount, wEv, events, batcherVars, mainVars, histVars,
                   lastPoll,
                   sideVars>>

\* ------------------------------------------------------------ batcher
\* case <-done
BatcherDone ==
    /\ Alive
    /\ bPc = "select"
    /\ done
    /\ timer' = stopAndDrain(timer)
    /\ bPc' = IF FlushOnDone(batch) THEN "sendDone" ELSE "exited"
    /\ last' = "done"
    /\ doneSeen' = [seen |-> TRUE, pending |-> batch, emitted |-> emitted,
                    closed |-> watcherClosed]
    /\ UNCHANGED <<watcherVars, batch, out, mainVars, received, emitted,
                   sinceLast, rapid, lastPoll,
                   sideVars>>

\* out <- batch; return          (done branch)
BatcherSendDone ==
    /\ Alive
    /\ bPc = "sendDone"
    /\ Len(out) < BatchChanCap
    /\ out' = Append(out, batch)
    /\ emitted' = Append(emitted, batch)
    /\ batch' = <<>>
    /\ bPc' = "exited"
    /\ UNCHANGED <<watcherVars, timer, mainVars, received, sinceLast, rapid,
                   last, doneSeen, lastPoll,
                   sideVars>>

\* case ev := <-events
BatcherEvent ==
    /\ Alive
    /\ bPc = "select"
    /\ events # <<>>
    /\ events' = Tail(events)
    /\ batch' = BatchAppend(batch, Head(events))
    /\ IF SizeReached(batch')
       THEN bPc' = "sendSize" /\ last' = "size" /\ UNCHANGED timer
       ELSE /\ timer' = ArmDebounce(timer, batch')
            /\ last' = "event"
            /\ UNCHANGED bPc
    /\ received' = Append(received, Head(events))
    /\ rapid' = (rapid /\ (received = <<>> \/ sinceLast < debounce))
    /\ sinceLast' = 0
    /\ UNCHANGED <<osCount, evCount, wPc, wEv, out, mainVars, emitted, doneSeen,
                   lastPoll,
                   sideVars>>

BatcherSendSize_Debounce ==
    /\ Alive
    /\ bPc = "sendSize"
    /\ Len(out) < BatchChanCap
    /\ out' = Append(out, batch)
    /\ emitted' = Append(emitted, batch)
    /\ batch' = <<>>
    /\ timer' = Reset(stopAndDrain(timer), debounce)
    /\ bPc' = "select"
    /\ UNCHANGED <<watcherVars, mainVars, received, sinceLast, rapid, last,
                   doneSeen, lastPoll,
                   sideVars>>

\* out <- batch; batch = nil; stopAndDrain(timer); timer.Reset(idle); continue
BatcherSendSize ==
    /\ Alive
    /\ bPc = "sendSize"
    /\ Len(out) < BatchChanCap
    /\ out' = Append(out, batch)
    /\ emitted' = Append(emitted, batch)
    /\ batch' = <<>>
    /\ timer' = Reset(stopAndDrain(timer), idleTimerDuration)
    /\ bPc' = "select"
    /\ UNCHANGED <<watcherVars, mainVars, received, sinceLast, rapid, last,
                   doneSeen, lastPoll,
                   sideVars>>

BatcherTimer_RearmsDebounce ==
    /\ Alive
    /\ bPc = "select"
    /\ timer.c
    /\ IF FlushOnTimer(batch)
       THEN /\ bPc' = "sendTimer"
            /\ timer' = [timer EXCEPT !.c = FALSE]
            /\ last' = "timer"
       ELSE /\ timer' = Reset([timer EXCEPT !.c = FALSE], debounce)
            /\ last' = "timerNoop"
            /\ UNCHANGED bPc
    /\ UNCHANGED <<watcherVars, batch, out, mainVars, received, emitted,
                   sinceLast, rapid, doneSeen, lastPoll,
                   sideVars>>

\* case <-timer.C
BatcherTimer ==
    /\ Alive
    /\ bPc = "select"
    /\ timer.c
    /\ IF FlushOnTimer(batch)
       THEN /\ bPc' = "sendTimer"
            /\ timer' = [timer EXCEPT !.c = FALSE]
            /\ last' = "timer"
       ELSE /\ timer' = Reset([timer EXCEPT !.c = FALSE], idleTimerDuration)
            /\ last' = "timerNoop"
            /\ UNCHANGED bPc
    /\ UNCHANGED <<watcherVars, batch, out, mainVars, received, emitted,
                   sinceLast, rapid, doneSeen, lastPoll,
                   sideVars>>

BatcherSendTimer_KeepBatch ==
    /\ Alive
    /\ bPc = "sendTimer"
    /\ Len(out) < BatchChanCap
    /\ out' = Append(out, batch)
    /\ emitted' = Append(emitted, batch)
    /\ timer' = Reset(timer, idleTimerDuration)
    /\ bPc' = "select"
    /\ UNCHANGED <<watcherVars, batch, mainVars, received, sinceLast, rapid,
                   last, doneSeen, lastPoll,
                   sideVars>>

\* out <- batch; batch = nil; timer.Reset(idle)      (timer branch)
BatcherSendTimer ==
    /\ Alive
    /\ bPc = "sendTimer"
    /\ Len(out) < BatchChanCap
    /\ out' = Append(out, batch)
    /\ emitted' = Append(emitted, batch)
    /\ batch' = <<>>
    /\ timer' = Reset(timer, idleTimerDuration)
    /\ bPc' = "select"
    /\ UNCHANGED <<watcherVars, mainVars, received, sinceLast, rapid, last,
                   doneSeen, lastPoll,
                   sideVars>>

\* ------------------------------------------------------------ main loop
MainGitTick_KeepBaseline ==
    /\ mainPc = "loop"
    /\ \E err \in BOOLEAN, hash \in 1..NumHashes :
         LET trig == StagedChanged(err, hash, lastStagedHash)
             prev == IF lastPoll.ok THEN lastPoll.hash ELSE lastPoll.prev
         IN /\ lastStagedHash' = lastStagedHash
            /\ lastPoll' = [ticked |-> TRUE, ok |-> ~err,
                            hash |-> IF err THEN NoHash ELSE hash,
                            prev |-> prev, trig |-> trig, base |-> lastStagedHash]
    /\ UNCHANGED <<watcherVars, batcherVars, done, mainPc, watcherClosed, histVars,
                   sideVars>>

\* case <-gitTicker.C: state, err := git.GetStagedState(); the provider
\* fails or returns a state with a non-empty hash
MainGitTick ==
    /\ mainPc = "loop"
    /\ \E err \in BOOLEAN, hash \in 1..NumHashes :
         LET trig == StagedChanged(err, hash, lastStagedHash)
             prev == IF lastPoll.ok THEN lastPoll.hash ELSE lastPoll.prev
         IN /\ lastStagedHash' = IF trig THEN hash ELSE lastStagedHash
            /\ lastPoll' = [ticked |-> TRUE, ok |-> ~err,
                            hash |-> IF err THEN NoHash ELSE hash,
                            prev |-> prev, trig |-> trig, base |-> lastStagedHash]
    /\ UNCHANGED <<watcherVars, batcherVars, done, mainPc, watcherClosed, histVars,
                   sideVars>>

\* case <-sigChan: close(done); return
MainSignal ==
    /\ mainPc = "loop"
    /\ done' = TRUE
    /\ mainPc' = "closing"
    /\ UNCHANGED <<watcherVars, batcherVars, lastStagedHash, watcherClosed,
                   histVars, lastPoll,
                   sideVars>>

\* deferred gitTicker.Stop() and fileWatcher.Close() run on return
MainDeferred ==
    /\ mainPc = "closing"
    /\ watcherClosed' = TRUE
    /\ mainPc' = "closed"
    /\ UNCHANGED <<watcherVars, batcherVars, done, lastStagedHash, histVars, lastPoll,
                   sideVars>>

MainExit_AwaitsTasks ==
    /\ mainPc = "closed"
    /\ inflight = {}
    /\ mainPc' = "exited"
    /\ UNCHANGED <<watcherVars, batcherVars, done, lastStagedHash, watcherClosed,
                   histVars, lastPoll,
                   sideVars>>

\* main has returned: the process ends and every goroutine with it
MainExit ==
    /\ mainPc = "closed"
    /\ mainPc' = "exited"
    /\ UNCHANGED <<watcherVars, batcherVars, done, lastStagedHash, watcherClosed,
                   histVars, lastPoll,
                   sideVars>>

\* ------------------------------------------------------------ specification
Next ==
    \/ Tick
    \/ WatcherRecv
    \/ WatcherSend
    \/ WatcherExit
    \/ BatcherDone
    \/ BatcherSendDone
    \/ BatcherEvent
    \/ BatcherSendSize
    \/ BatcherTimer
    \/ BatcherSendTimer
    \/ MainGitTick
    \/ MainSignal
    \/ MainDeferred
    \/ MainExit

Spec == Init /\ [][Next]_vars

\* the goroutines are scheduled and the ticker keeps delivering; nothing
\* obliges the OS to produce events, time to pass or the user to send a signal
SpecFair ==
    /\ WF_vars(WatcherSend)
    /\ WF_vars(BatcherEvent)
    /\ WF_vars(BatcherDone)
    /\ WF_vars(BatcherSendDone)
    /\ WF_vars(BatcherSendSize)
    /\ WF_vars(BatcherSendTimer)
    /\ WF_vars(MainGitTick)
    /\ WF_vars(MainDeferred)
    /\ WF_vars(MainExit)

SpecLive == Spec /\ SpecFair

\* a run long enough for the batch channel, which nothing receives from, to
\* fill up; main only waits for the signal
StreamNext ==
    \/ Tick
    \/ WatcherRecvStream
    \/ WatcherSend
    \/ WatcherExit
    \/ BatcherDone
    \/ BatcherSendDone
    \/ BatcherEvent
    \/ BatcherSendSize
    \/ BatcherTimer
    \/ BatcherSendTimer
    \/ MainSignal
    \/ MainDeferred
    \/ MainExit

StreamSpec == Init /\ [][StreamNext]_vars

\* ------------------------------------------------------------ normalizePath on its own
\* normalizePath is called on a path
NormalizeCall ==
    /\ pathPc = "start"
    /\ \E p \in Paths :
        /\ path' = p
        /\ normalized' = normalizePath(p)
    /\ pathPc' = "once"
    /\ UNCHANGED <<renormalized, pathRest>>

\* normalizePath is called on what it returned
NormalizeAgain ==
    /\ pathPc = "once"
    /\ renormalized' = normalizePath(normalized)
    /\ pathPc' = "twice"
    /\ UNCHANGED <<path, normalized, pathRest>>

PathNext == NormalizeCall \/ NormalizeAgain

PathSpec == Init /\ [][PathNext]_vars

\* ------------------------------------------------------------ the watcher worker with paths
\* case event, ok := <-w.watcher.Events with ok: a notification for event.Name;
\* shouldIgnore drops it (continue), otherwise the worker builds the event for
\* the normalized path and goes on to send it
WatcherRecvFrom(raws) ==
    /\ Alive
    /\ wPc = "select"
    /\ ~watcherClosed
    /\ osCount < MaxRaw
    /\ osCount' = osCount + 1
    /\ \E raw \in raws :
         IF shouldIgnore(raw)
         THEN UNCHANGED <<evCount, wPc, wEv, accepted>>
         ELSE /\ wPc' = "send"
              /\ evCount' = evCount + 1
              /\ wEv' = evCount + 1
              /\ accepted' = Append(accepted, FileEventOf(raw))
    /\ UNCHANGED <<events, batcherVars, mainVars, histVars, lastPoll, wErrs, watchRest>>

\* the worker receives a notification for one of RawPaths
WatcherRecvPath == WatcherRecvFrom(RawPaths)

\* the worker receives a notification for a file that config.Ignore matches,
\* for its backup copy or for another file
WatcherRecvArtifact == WatcherRecvFrom(ArtifactPaths)

WatcherError_Returns ==
    /\ Alive
    /\ wPc = "select"
    /\ ~watcherClosed
    /\ wErrs < MaxErrors
    /\ wErrs' = wErrs + 1
    /\ wPc' = "exited"
    /\ UNCHANGED <<osCount, evCount, wEv, events, batcherVars, mainVars, histVars,
                   lastPoll, accepted, watchRest>>

\* case err, ok := <-w.watcher.Errors with ok: the error is printed and the
\* loop goes round
WatcherError ==
    /\ Alive
    /\ wPc = "select"
    /\ ~watcherClosed
    /\ wErrs < MaxErrors
    /\ wErrs' = wErrs + 1
    /\ wPc' = "select"
    /\ UNCHANGED <<osCount, evCount, wEv, events, batcherVars, mainVars, histVars,
                   lastPoll, accepted, watchRest>>

WatchNext ==
    \/ Tick
    \/ WatcherRecvPath
    \/ WatcherError
    \/ WatcherSend
    \/ WatcherExit
    \/ BatcherDone
    \/ BatcherSendDone
    \/ BatcherEvent
    \/ BatcherSendSize
    \/ BatcherTimer
    \/ BatcherSendTimer
    \/ MainSignal
    \/ MainDeferred
    \/ MainExit

WatchSpec == Init /\ [][WatchNext]_vars

\* a goroutine that can take a step takes it: a blocked send completes once
\* there is room, a select with a ready case goes on, main's return completes
WatchFair ==
    /\ WF_vars(WatcherSend)
    /\ WF_vars(BatcherEvent)
    /\ WF_vars(BatcherDone)
    /\ WF_vars(BatcherSendDone)
    /\ WF_vars(BatcherSendSize)
    /\ WF_vars(BatcherSendTimer)
    /\ WF_vars(MainDeferred)
    /\ WF_vars(MainExit)

WatchLive == WatchSpec /\ WatchFair

\* ------------------------------------------------------------ Watcher.Start with per-file debounce
\* case event, ok := <-w.watcher.Events with ok: shouldIgnore drops the
\* notification; otherwise the timer the map holds for the normalized path is
\* stopped and a new one is made and stored
DebounceEvent ==
    /\ ~crashed
    /\ fsCount < MaxFsEvents
    /\ fsCount' = fsCount + 1
    /\ \E raw \in DebRawPaths :
         IF shouldIgnore(raw)
         THEN UNCHANGED <<timers, debounceTimers, since, bursts>>
         ELSE LET normalizedPath == normalizePath(raw)
                  old == debounceTimers[normalizedPath]
                  n == fsCount + 1
              IN /\ timers' = [i \in 1..MaxFsEvents |->
                                 IF i = n THEN AfterFunc(normalizedPath)
                                 ELSE IF i = old THEN StopTimer(timers[i])
                                 ELSE timers[i]]
                 /\ debounceTimers' = [debounceTimers EXCEPT ![normalizedPath] = n]
                 /\ bursts' = [bursts EXCEPT ![normalizedPath] =
                                  IF since[normalizedPath] >= debounce THEN @ + 1 ELSE @]
                 /\ since' = [since EXCEPT ![normalizedPath] = 0]
    /\ UNCHANGED <<debounceChan, fileEvents, crashed, debRest>>

\* one unit of time passes: the running timers get closer to their expiry,
\* and one that reaches it fires, which makes its function runnable
DebounceTick ==
    /\ ~crashed
    /\ \/ \E n \in 1..MaxFsEvents : timers[n].st = "armed"
       \/ \E p \in DebKeys : since[p] < debounce
    /\ timers' = [n \in 1..MaxFsEvents |->
                    IF timers[n].st # "armed" THEN timers[n]
                    ELSE IF timers[n].left = 1
                         THEN [timers[n] EXCEPT !.st = "fired", !.left = 0]
                         ELSE [timers[n] EXCEPT !.left = @ - 1]]
    /\ since' = [p \in DebKeys |-> Min(since[p] + 1, debounce)]
    /\ UNCHANGED <<fsCount, debounceTimers, debounceChan, fileEvents, bursts, crashed,
                   debRest>>

\* the function of a fired timer runs in its own goroutine: it sends its path
\* on debounceChan and deletes the map entry of that path, or finds the
\* channel full and does nothing
TimerFunc ==
    /\ ~crashed
    /\ \E n \in 1..MaxFsEvents :
         /\ timers[n].st = "fired"
         /\ timers' = [timers EXCEPT ![n].st = "done"]
         /\ IF Len(debounceChan) < DebounceChanCap
            THEN /\ debounceChan' = Append(debounceChan, timers[n].path)
                 /\ debounceTimers' = [debounceTimers EXCEPT ![timers[n].path] = NoTimer]
            ELSE UNCHANGED <<debounceChan, debounceTimers>>
    /\ UNCHANGED <<fsCount, fileEvents, since, bursts, crashed, debRest>>

\* the worker and a timer function use the debounceTimers map at the same
\* time without a lock: the runtime may detect it and end the process with
\* "fatal error: concurrent map writes"
ConcurrentMapAccess ==
    /\ ~crashed
    /\ fsCount < MaxFsEvents
    /\ \E n \in 1..MaxFsEvents : timers[n].st = "fired"
    /\ Len(debounceChan) < DebounceChanCap
    /\ crashed' = TRUE
    /\ UNCHANGED <<fsCount, timers, debounceTimers, debounceChan, fileEvents, since,
                   bursts, debRest>>

\* for path := range debounceChan { w.events <- FileEvent{Path: path} }
ForwardEvent ==
    /\ ~crashed
    /\ debounceChan # <<>>
    /\ Len(fileEvents) < FileEventsCap
    /\ fileEvents' = Append(fileEvents, Head(debounceChan))
    /\ debounceChan' = Tail(debounceChan)
    /\ UNCHANGED <<fsCount, timers, debounceTimers, since, bursts, crashed, debRest>>

DebounceNext ==
    \/ DebounceEvent
    \/ DebounceTick
    \/ TimerFunc
    \/ ConcurrentMapAccess
    \/ ForwardEvent

DebounceSpec == Init /\ [][DebounceNext]_vars

\* the worker with notifications for editor artifacts of ignored files, and
\* the batcher that takes its events
FilterNext ==
    \/ WatcherRecvArtifact
    \/ WatcherError
    \/ WatcherSend
    \/ BatcherEvent
    \/ BatcherSendSize

FilterSpec == Init /\ [][FilterNext]_vars

\* ------------------------------------------------------------ Tailer.Tail called once
\* Tail(): open, scan every line, check the scanner's error, join the last
\* config.Lines lines
TailCall ==
    /\ tailPc = "start"
    /\ \E st \in {"ok", "missing", "ioerror"}, c \in ContentsOf(MaxContent),
          n \in 0..MaxLines :
         /\ logState' = st
         /\ logContent' = c
         /\ cfgLines' = n
         /\ IF st # "ok" \/ ScanTooLong(c)
            THEN tailErr' = TRUE /\ tailResult' = <<>>
            ELSE /\ tailErr' = FALSE
                 /\ tailResult' = JoinNewline(RecentLines(ScanLines(c), n))
    /\ tailPc' = "returned"
    /\ UNCHANGED tailRest

TailSpec == Init /\ [][TailCall]_vars

\* ------------------------------------------------------------ parseFixResponse called once
ParseFixCall ==
    /\ fixPc = "start"
    /\ \E c \in FixContentsOf(MaxFixPieces) :
         /\ fixContent' = c
         /\ needFix' = parseFixResponse(c).needFix
         /\ review' = parseFixResponse(c).review
         /\ fixErr' = parseFixResponse(c).err
    /\ fixPc' = "returned"
    /\ UNCHANGED fixRest

FixSpec == Init /\ [][ParseFixCall]_vars

\* ------------------------------------------------------------ Client.Generate
MaxFrames == 2
\* respChan := make(chan GenerateResponse, 1); spinnerChan = make(chan bool, 1)
RespChanCap == 1
SpinnerChanCap == 1
\* the providers the switch knows, and the values c.config.Provider is given
Providers == { "openai", "gemini", "zai", "claude" }
ProviderConfigs == Providers \cup { "cohere" }

\* Generate(req): makes respChan, starts the worker and returns the channel
GenerateCall ==
    /\ genPc = "idle"
    /\ \E stream \in BOOLEAN, ok \in BOOLEAN, prov \in ProviderConfigs :
         /\ reqStream' = stream
         /\ rendererOk' = ok
         /\ provider' = prov
    /\ respChan' = <<>>
    /\ genPc' = "start"
    /\ UNCHANGED <<apiErr, respClosed, spinnerNil, spinnerChan, spinPc, spinFrames,
                   got, sends, pipeVars, genRest>>

\* the worker up to the API call: when not streaming it tries the markdown
\* renderer, and goes on to send the error if that fails; else it makes
\* spinnerChan and starts the spinner
WorkerInit ==
    /\ genPc = "start"
    /\ IF reqStream
       THEN /\ genPc' = "api"
            /\ UNCHANGED <<spinnerNil, spinPc>>
       ELSE IF ~rendererOk
       THEN /\ genPc' = "senderr"
            /\ UNCHANGED <<spinnerNil, spinPc>>
       ELSE /\ spinnerNil' = FALSE
            /\ spinPc' = "running"
            /\ genPc' = "api"
    /\ UNCHANGED <<reqStream, rendererOk, provider, apiErr, respChan, respClosed,
                   spinnerChan, spinFrames, got, sends, pipeVars, genRest>>

\* the send of the renderer error without the return after it: the worker
\* goes on to the API call
WorkerSendRendererError_NoReturn ==
    /\ genPc = "senderr"
    /\ Len(respChan) < RespChanCap
    /\ respChan' = Append(respChan, "renderer")
    /\ sends' = sends + 1
    /\ genPc' = "api"
    /\ UNCHANGED <<reqStream, rendererOk, provider, apiErr, respClosed, spinnerNil,
                   spinnerChan, spinPc, spinFrames, got, pipeVars, genRest>>

\* respChan <- GenerateResponse{Error: failed to initialize ...}; return, and
\* the deferred close(respChan)
WorkerSendRendererError ==
    /\ genPc = "senderr"
    /\ Len(respChan) < RespChanCap
    /\ respChan' = Append(respChan, "renderer")
    /\ sends' = sends + 1
    /\ respClosed' = TRUE
    /\ genPc' = "exited"
    /\ UNCHANGED <<reqStream, rendererOk, provider, apiErr, spinnerNil, spinnerChan,
                   spinPc, spinFrames, got, pipeVars, genRest>>

\* the switch on c.config.Provider: the call of a known provider returns with
\* or without an error, any other provider is an error at once
WorkerApi ==
    /\ genPc = "api"
    /\ IF provider \in Providers
       THEN \E e \in { "nil", "api" } : apiErr' = e
       ELSE apiErr' = "unsupported"
    /\ genPc' = "stop"
    /\ UNCHANGED <<reqStream, rendererOk, provider, respChan, respClosed, spinnerNil,
                   spinnerChan, spinPc, spinFrames, got, sends, pipeVars, genRest>>

\* if spinnerChan != nil { spinnerChan <- true; ... }, then the rendering of
\* the content
WorkerStopSpinner ==
    /\ genPc = "stop"
    /\ IF spinnerNil
       THEN UNCHANGED spinnerChan
       ELSE /\ Len(spinnerChan) < SpinnerChanCap
            /\ spinnerChan' = Append(spinnerChan, TRUE)
    /\ genPc' = "send"
    /\ UNCHANGED <<reqStream, rendererOk, provider, apiErr, respChan, respClosed,
                   spinnerNil, spinPc, spinFrames, got, sends, pipeVars, genRest>>

\* respChan <- GenerateResponse{Content: content, Error: err}, the end of the
\* worker and the deferred close(respChan)
WorkerSend ==
    /\ genPc = "send"
    /\ Len(respChan) < RespChanCap
    /\ respChan' = Append(respChan, apiErr)
    /\ sends' = sends + 1
    /\ respClosed' = TRUE
    /\ genPc' = "exited"
    /\ UNCHANGED <<reqStream, rendererOk, provider, apiErr, spinnerNil, spinnerChan,
                   spinPc, spinFrames, got, pipeVars, genRest>>

\* the spinner's select takes <-time.After(100ms) and prints a frame
SpinnerFrame ==
    /\ spinPc = "running"
    /\ spinFrames < MaxFrames
    /\ spinFrames' = spinFrames + 1
    /\ UNCHANGED <<genPc, reqStream, rendererOk, provider, apiErr, respChan, respClosed,
                   spinnerNil, spinnerChan, spinPc, got, sends, pipeVars, genRest>>

\* the spinner's select takes <-spinnerChan and the goroutine returns
SpinnerReturn ==
    /\ spinPc = "running"
    /\ spinnerChan # <<>>
    /\ spinnerChan' = Tail(spinnerChan)
    /\ spinPc' = "returned"
    /\ UNCHANGED <<genPc, reqStream, rendererOk, provider, apiErr, respChan, respClosed,
                   spinnerNil, spinFrames, got, sends, pipeVars, genRest>>

\* the caller receives from the channel Generate returned: a buffered
\* response, or the zero value once the channel is closed and empty
CallerRecv ==
    /\ genPc # "idle"
    /\ Len(got) < 2
    /\ \/ /\ respChan # <<>>
          /\ got' = Append(got, Head(respChan))
          /\ respChan' = Tail(respChan)
       \/ /\ respChan = <<>>
          /\ respClosed
          /\ got' = Append(got, "closed")
          /\ UNCHANGED respChan
    /\ UNCHANGED <<genPc, reqStream, rendererOk, provider, apiErr, respClosed, spinnerNil,
                   spinnerChan, spinPc, spinFrames, sends, pipeVars, genRest>>

GenNext ==
    \/ GenerateCall
    \/ WorkerInit
    \/ WorkerSendRendererError
    \/ WorkerApi
    \/ WorkerStopSpinner
    \/ WorkerSend
    \/ SpinnerFrame
    \/ SpinnerReturn
    \/ CallerRecv

GenSpec == Init /\ [][GenNext]_vars

\* the scheduler runs a goroutine that can take a step, and the provider's
\* call returns; nothing makes the caller receive
GenFair ==
    /\ WF_vars(WorkerInit)
    /\ WF_vars(WorkerSendRendererError)
    /\ WF_vars(WorkerApi)
    /\ WF_vars(WorkerStopSpinner)
    /\ WF_vars(WorkerSend)

GenLive == GenSpec /\ GenFair

\* ------------------------------------------------------------ watcher.New
\* the configurations New is called with: lists of distinct patterns
Configs == { l \in WatchLists(MaxPatterns) : \A i, j \in DOMAIN l : i # j => l[i] # l[j] }

\* New(config) is called: the fsnotify watcher and the Watcher are built,
\* addedDirs is empty
NewCall ==
    /\ newPc = "start"
    /\ \E l \in Configs : watch' = l
    /\ newPc' = "loop"
    /\ UNCHANGED <<patIdx, addedDirs, addCalls, newErr, newRest>>

\* New(config) is called and fsnotify.NewWatcher fails: return nil, err
NewWatcherFails ==
    /\ newPc = "start"
    /\ \E l \in Configs : watch' = l
    /\ newPc' = "failed"
    /\ newErr' = TRUE
    /\ UNCHANGED <<patIdx, addedDirs, addCalls, newRest>>

NewRecursive_Abort ==
    /\ newPc = "loop"
    /\ patIdx <= Len(watch)
    /\ IsRecursive(watch[patIdx])
    /\ LET baseDir == BaseDirOf(watch[patIdx])
       IN \E ok \in BOOLEAN :
            /\ ok => CanAdd(baseDir)
            /\ addCalls' = Append(addCalls, [dir |-> baseDir, ok |-> ok, pat |-> patIdx])
            /\ addedDirs' = IF ok THEN addedDirs \cup {baseDir} ELSE addedDirs
            /\ IF ok
               THEN patIdx' = patIdx + 1 /\ UNCHANGED <<newPc, newErr>>
               ELSE newPc' = "returned" /\ newErr' = TRUE /\ UNCHANGED patIdx
    /\ UNCHANGED <<watch, newRest>>

\* one iteration of the loop for a pattern that contains "**": Add(baseDir),
\* on error continue, otherwise addedDirs[baseDir] = true
NewRecursive ==
    /\ newPc = "loop"
    /\ patIdx <= Len(watch)
    /\ IsRecursive(watch[patIdx])
    /\ LET baseDir == BaseDirOf(watch[patIdx])
       IN \E ok \in BOOLEAN :
            /\ ok => CanAdd(baseDir)
            /\ addCalls' = Append(addCalls, [dir |-> baseDir, ok |-> ok, pat |-> patIdx])
            /\ addedDirs' = IF ok THEN addedDirs \cup {baseDir} ELSE addedDirs
    /\ patIdx' = patIdx + 1
    /\ UNCHANGED <<newPc, watch, newErr, newRest>>

RECURSIVE AddMatches(_, _, _, _, _)
\* the inner loop over the matches, in the order Glob returned them: a
\* directory not in addedDirs is added; failing holds the directories whose
\* Add fails
AddMatches(matches, added, calls, failing, pat) ==
    IF matches = <<>> THEN [added |-> added, calls |-> calls]
    ELSE LET dir == WatchDirOf(Head(matches))
         IN IF dir \in added
            THEN AddMatches(Tail(matches), added, calls, failing, pat)
            ELSE IF dir \in failing
            THEN AddMatches(Tail(matches), added,
                            Append(calls, [dir |-> dir, ok |-> FALSE, pat |-> pat]),
                            failing, pat)
            ELSE AddMatches(Tail(matches), added \cup {dir},
                            Append(calls, [dir |-> dir, ok |-> TRUE, pat |-> pat]),
                            failing, pat)

\* the sequences that enumerate the set S
Enumerations(S) ==
    { q \in [1..Cardinality(S) -> S] : \A i, j \in DOMAIN q : i # j => q[i] # q[j] }

\* one iteration of the loop for a pattern without "**": a glob error skips
\* the pattern, otherwise the directory of every match is added unless it is
\* in addedDirs already
NewGlob ==
    /\ newPc = "loop"
    /\ patIdx <= Len(watch)
    /\ ~IsRecursive(watch[patIdx])
    /\ IF BadPattern(watch[patIdx])
       THEN UNCHANGED <<addedDirs, addCalls>>
       ELSE \E matches \in Enumerations(Glob(watch[patIdx])) :
            \E failing \in SUBSET { WatchDirOf(matches[i]) : i \in DOMAIN matches } :
              LET res == AddMatches(matches, addedDirs, addCalls, failing, patIdx)
              IN /\ addedDirs' = res.added
                 /\ addCalls' = res.calls
    /\ patIdx' = patIdx + 1
    /\ UNCHANGED <<newPc, watch, newErr, newRest>>

\* return w, nil
NewReturn ==
    /\ newPc = "loop"
    /\ patIdx > Len(watch)
    /\ newPc' = "returned"
    /\ newErr' = FALSE
    /\ UNCHANGED <<watch, patIdx, addedDirs, addCalls, newRest>>

NewNext == NewCall \/ NewWatcherFails \/ NewRecursive \/ NewGlob \/ NewReturn

NewSpec == Init /\ [][NewNext]_vars

\* ------------------------------------------------------------ dispatcher
\* processBatch(events, cfg, llmClient, logTailer)
ProcessBatch ==
    \E files \in FileLists(MaxFiles), log \in LogFiles, ignore \in IgnoreConfigs,
       res \in DiffResults :
        LET fileSet == Kept(files, log, ignore)
        IN /\ trigKind' = "batch"
           /\ trigFiles' = files
           /\ logFile' = log
           /\ cfgIgnore' = ignore
           /\ keptFiles' = fileSet
           /\ diffFetched' = BatchFetchesDiff(fileSet)
           /\ logTailed' = (BatchFetchesDiff(fileSet) /\ res = "diffs")
           /\ launched' = (BatchFetchesDiff(fileSet) /\ res = "diffs")
           /\ UNCHANGED dispRest

\* processStagedChange(state, cfg, llmClient, logTailer): it returns at once
\* for an empty state.StagedFiles; after the filter it calls
\* git.GetStagedDiff(files...) whatever is left
ProcessStagedChange ==
    \E files \in FileLists(MaxFiles), log \in LogFiles, ignore \in IgnoreConfigs,
       res \in DiffResults :
        LET filtered == Kept(files, log, ignore)
        IN /\ trigKind' = "staged"
           /\ trigFiles' = files
           /\ logFile' = log
           /\ cfgIgnore' = ignore
           /\ keptFiles' = filtered
           /\ diffFetched' = (files # <<>>)
           /\ logTailed' = (files # <<>> /\ res = "diffs")
           /\ launched' = (files # <<>> /\ res = "diffs")
           /\ UNCHANGED dispRest

DispatchNext == ProcessBatch \/ ProcessStagedChange

DispatchSpec == Init /\ [][DispatchNext]_vars

\* ------------------------------------------------------------ main's loop and the generation tasks
\* case <-gitTicker.C: main calls git.GetStagedState() and waits for it
GitTickBegin ==
    /\ mainPc = "loop"
    /\ ticks < MaxTicks
    /\ ticks' = ticks + 1
    /\ mainPc' = "state"
    /\ UNCHANGED <<lastStagedHash, polled, reqCount, inflight, printed, actionable,
                   aborted, loopRest>>

\* git.GetStagedState() returns: on a changed hash lastStagedHash is set and
\* processStagedChange is entered; it returns at once for no staged files,
\* otherwise main calls git.GetStagedDiff(files...) and waits for it
StagedStateReturns ==
    /\ mainPc = "state"
    /\ \E err \in BOOLEAN, hash \in 1..NumHashes, nfiles \in 0..1 :
         IF StagedChanged(err, hash, lastStagedHash)
         THEN /\ lastStagedHash' = hash
              /\ IF nfiles = 0
                 THEN mainPc' = "loop" /\ polled' = NoHash
                 ELSE mainPc' = "diff" /\ polled' = hash
         ELSE /\ mainPc' = "loop"
              /\ UNCHANGED <<lastStagedHash, polled>>
    /\ UNCHANGED <<ticks, reqCount, inflight, printed, actionable, aborted, loopRest>>

StagedDiffReturns_Awaits ==
    /\ mainPc = "diff"
    /\ \E res \in DiffResults :
         IF res = "diffs"
         THEN /\ reqCount' = reqCount + 1
              /\ inflight' = inflight \cup {reqCount + 1}
              /\ actionable' = actionable + 1
              /\ aborted' = NoHash
              /\ mainPc' = "await"
         ELSE /\ aborted' = IF res = "error" THEN polled ELSE aborted
              /\ mainPc' = "loop"
              /\ UNCHANGED <<reqCount, inflight, actionable>>
    /\ polled' = NoHash
    /\ UNCHANGED <<lastStagedHash, ticks, printed, loopRest>>

\* git.GetStagedDiff returns: on an error or no diffs processStagedChange
\* returns; otherwise it tails the log, builds the request and calls
\* launchLLMAsync, which starts the task and returns
StagedDiffReturns ==
    /\ mainPc = "diff"
    /\ \E res \in DiffResults :
         IF res = "diffs"
         THEN /\ reqCount' = reqCount + 1
              /\ inflight' = inflight \cup {reqCount + 1}
              /\ actionable' = actionable + 1
              /\ aborted' = NoHash
         ELSE /\ aborted' = IF res = "error" THEN polled ELSE aborted
              /\ UNCHANGED <<reqCount, inflight, actionable>>
    /\ mainPc' = "loop"
    /\ polled' = NoHash
    /\ UNCHANGED <<lastStagedHash, ticks, printed, loopRest>>

LLMTaskEnds_Retries ==
    /\ Alive
    /\ \E r \in inflight, err \in BOOLEAN :
         /\ inflight' = IF err THEN inflight ELSE inflight \ {r}
         /\ printed' = Append(printed, [req |-> r, err |-> err])
    /\ UNCHANGED <<mainPc, lastStagedHash, ticks, polled, reqCount, actionable, aborted,
                   loopRest>>

\* resp := <-client.Generate(req) in the task of launchLLMAsync: the task
\* prints the error or the review, and ends
LLMTaskEnds ==
    /\ Alive
    /\ \E r \in inflight, err \in BOOLEAN :
         /\ inflight' = inflight \ {r}
         /\ printed' = Append(printed, [req |-> r, err |-> err])
    /\ UNCHANGED <<mainPc, lastStagedHash, ticks, polled, reqCount, actionable, aborted,
                   loopRest>>

LoopNext ==
    \/ GitTickBegin
    \/ StagedStateReturns
    \/ StagedDiffReturns
    \/ LLMTaskEnds
    \/ MainSignal
    \/ MainDeferred
    \/ MainExit

LoopSpec == Init /\ [][LoopNext]_vars

\* main's return runs its deferred calls and ends the process
LoopFair == WF_vars(MainDeferred) /\ WF_vars(MainExit)

LoopLive == LoopSpec /\ LoopFair

TypeOK ==
    /\ osCount \in 0..MaxEvents
    /\ wPc \in {"select", "send", "exited"}
    /\ bPc \in {"select", "sendDone", "sendSize", "sendTimer", "exited"}
    /\ mainPc \in {"loop", "state", "diff", "closing", "closed", "exited"}
    /\ timer.left \in 0..idleTimerDuration
    /\ Len(out) <= BatchChanCap
    /\ Len(events) <= EventsChanCap
    /\ lastStagedHash \in 0..NumHashes

\* ------------------------------------------------------------ properties
CeilDiv(n, d) == (n + d - 1) \div d

\* the batcher has finished handling an expiry of its timer and waits again
PauseHandled == bPc = "select" /\ last \in {"timer", "timerNoop"}

\* C1: no batch the batcher sends on its output channel is empty, whatever
\* the interleaving of event arrivals, timer expiries and shutdown.
C1_NeverEmptyBatch ==
    /\ \A i \in 1..Len(emitted) : emitted[i] # <<>>
    /\ \A i \in 1..Len(out) : out[i] # <<>>

\* the timer expired on an empty accumulator after a batch had been emitted
C1_Witness == last = "timerNoop" /\ bPc = "select" /\ emitted # <<>>

\* C2: N events (1 <= N < maxBatchSize), each received less than debounce
\* after the previous one: nothing is emitted before the pause, and once the
\* expiry after the pause is handled exactly one batch has been emitted,
\* holding the N events in arrival order.
C2_BurstOneBatch ==
    (rapid /\ ~doneSeen.seen /\ Len(received) >= 1 /\ Len(received) < maxBatchSize)
    => /\ \/ emitted = <<>> /\ batch = received
          \/ emitted = <<received>> /\ batch = <<>>
       /\ sinceLast < debounce => emitted = <<>>
       /\ PauseHandled => emitted = <<received>>

\* two rapid events were flushed as one batch by the debounce timer
C2_Witness ==
    /\ rapid /\ ~doneSeen.seen
    /\ Len(received) = 2
    /\ PauseHandled
    /\ emitted = <<received>>

\* C3: N >= maxBatchSize rapid events: every batch has at most maxBatchSize
\* events, the first N div maxBatchSize have exactly maxBatchSize, and once
\* the pause is handled exactly ceil(N / maxBatchSize) batches were emitted.
C3_BurstChunks ==
    (rapid /\ ~doneSeen.seen /\ Len(received) >= maxBatchSize)
    => LET n == Len(received)
           q == n \div maxBatchSize
       IN /\ Len(emitted) <= CeilDiv(n, maxBatchSize)
          /\ \A i \in 1..Len(emitted) :
                /\ Len(emitted[i]) <= maxBatchSize
                /\ i <= q => Len(emitted[i]) = maxBatchSize
          /\ bPc = "select" => Len(emitted) >= q
          /\ PauseHandled => Len(emitted) = CeilDiv(n, maxBatchSize)

\* a rapid burst longer than maxBatchSize ended with a trailing short batch
C3_Witness ==
    /\ rapid /\ ~doneSeen.seen
    /\ Len(received) > maxBatchSize
    /\ Len(received) % maxBatchSize # 0
    /\ PauseHandled
    /\ Len(emitted) = (Len(received) \div maxBatchSize) + 1

\* C4: from the moment the batcher observes done until it returns it emits
\* exactly the pending accumulator as one batch when that is non-empty, and
\* nothing when it is empty.
C4_ShutdownFlush ==
    doneSeen.seen =>
        /\ bPc \in {"sendDone", "exited"}
        /\ bPc = "sendDone" => emitted = doneSeen.emitted /\ doneSeen.pending # <<>>
        /\ bPc = "exited" =>
             emitted = IF doneSeen.pending # <<>>
                       THEN Append(doneSeen.emitted, doneSeen.pending)
                       ELSE doneSeen.emitted

\* the batcher returned after flushing a non-empty accumulator on shutdown
C4_Witness == bPc = "exited" /\ doneSeen.pending # <<>> /\ doneSeen.emitted # <<>>

\* C5: shutdown is ordered: when main has returned the watcher is closed,
\* no non-empty pending batch is left unflushed, and a pending batch flushed
\* on shutdown was flushed after the watcher stopped accepting notifications.
C5_OrderedShutdown ==
    mainPc = "exited" =>
        /\ watcherClosed
        /\ batch = <<>>
        /\ (doneSeen.seen /\ doneSeen.pending # <<>>) => doneSeen.closed

\* C6: every event the batcher has received is in exactly one place, the
\* pending accumulator or one emitted batch; nothing else is in either.
C6_Conservation ==
    \A e \in 1..MaxEvents :
        Count(e, batch) + Count(e, Flatten(emitted))
            = IF Count(e, received) > 0 THEN 1 ELSE 0

\* two batches were emitted and a further event is pending
C6_Witness == Len(emitted) >= 2 /\ batch # <<>>

\* C7: the emitted batches in emission order followed by the pending
\* accumulator are the received events in the order they were received.
C7_Ordering == Flatten(emitted) \o batch = received

\* a batch was emitted and two later events are pending in arrival order
C7_Witness == emitted # <<>> /\ Len(batch) >= 2

\* C8: the first successful poll never triggers a review.
C8_FirstPollSilent ==
    (lastPoll.ticked /\ lastPoll.ok /\ lastPoll.prev = NoPoll) => ~lastPoll.trig

\* C9: a successful poll after the first successful one triggers exactly
\* when its hash differs from the hash of the most recent successful poll;
\* the baseline then is the hash just fetched.
C9_TriggerIffChanged ==
    (lastPoll.ticked /\ lastPoll.ok /\ lastPoll.prev # NoPoll)
    => /\ lastPoll.trig <=> lastPoll.hash # lastPoll.prev
       /\ lastStagedHash = lastPoll.hash
       /\ lastPoll.base = lastPoll.prev

\* a later successful poll fetched a different hash and triggered
C9_Witness ==
    /\ lastPoll.ticked /\ lastPoll.ok
    /\ lastPoll.prev \notin {NoPoll, lastPoll.hash}
    /\ lastPoll.trig

\* C10: a failed fetch triggers nothing and leaves the baseline as it was;
\* the loop stays ready for the next tick.
C10_FailedPollSkipped ==
    (lastPoll.ticked /\ ~lastPoll.ok)
    => /\ ~lastPoll.trig
       /\ lastStagedHash = lastPoll.base
       /\ mainPc = "loop" => ENABLED MainGitTick

\* a fetch failed while a baseline from an earlier poll was retained
C10_Witness == lastPoll.ticked /\ ~lastPoll.ok /\ lastStagedHash # NoHash

\* ------------------------------------------------------------ PathNormalizer
\* the matching conditions of the five rules of the normalizer
Rule1(p) == HasSuffix(p, Tilde)
Rule2(p) == HasSuffix(p, Swp)
Rule3(p) == HasSuffix(p, Tmp)
Rule4(p) == HasPrefix(Base(p), Lock)
Rule5(p) == HasPrefix(Base(p), Hash) /\ HasSuffix(Base(p), Hash) /\ Len(Base(p)) > 1

RulesMatching(p) ==
    { i \in 1..5 : \/ i = 1 /\ Rule1(p)
                   \/ i = 2 /\ Rule2(p)
                   \/ i = 3 /\ Rule3(p)
                   \/ i = 4 /\ Rule4(p)
                   \/ i = 5 /\ Rule5(p) }

\* p without its last n characters
DropLast(p, n) == SubSeq(p, 1, Len(p) - n)

\* C11: a path ending in "~", ".swp" or ".tmp" comes back with exactly that
\* suffix removed; a path matching none of the five rules comes back unchanged.
C11_SuffixOrUnchanged ==
    pathPc # "start" =>
        /\ Rule1(path) => normalized = DropLast(path, 1)
        /\ Rule2(path) => normalized = DropLast(path, 4)
        /\ Rule3(path) => normalized = DropLast(path, 4)
        /\ RulesMatching(path) = {} => normalized = path

\* C12: normalizing a normalized path returns it unchanged.
C12_Idempotent == pathPc = "twice" => renormalized = normalized

\* C13: every path satisfies the matching condition of at most one rule.
C13_AtMostOneRule == pathPc # "start" => Cardinality(RulesMatching(path)) <= 1

\* C13 (amended): the suffix rules 1-3 and rule 5 exclude each other, and so
\* do rules 4 and 5; rule 4 can hold together with one suffix rule, and then
\* only the suffix rule, the first match, is applied.
C13_FirstMatchOnly ==
    pathPc # "start" =>
        /\ Cardinality(RulesMatching(path) \ {4}) <= 1
        /\ Cardinality(RulesMatching(path) \ {1, 2, 3}) <= 1
        /\ (4 \in RulesMatching(path) /\ RulesMatching(path) # {4}) =>
              normalized = DropLast(path, IF Rule1(path) THEN 1 ELSE 4)

\* a lock-file name that also carries the backup suffix was normalized
C13_Witness ==
    /\ pathPc = "once"
    /\ RulesMatching(path) = {1, 4}
    /\ normalized = DropLast(path, 1)

\* ------------------------------------------------------------ ChangeWatcher
\* the FileEvents that a sequence of events stands for
EventsOf(q) == { accepted[q[i]] : i \in DOMAIN q }

\* the event the worker holds while it waits to send
InHand == IF wPc = "send" THEN <<wEv>> ELSE <<>>

\* C14: no batch sent downstream holds two events for the same normalized path
\* that come from an editor artifact and the file it shadows.
C14_OneEventPerPath ==
    \A n \in DOMAIN emitted :
        \A i, j \in DOMAIN emitted[n] :
            (accepted[emitted[n][i]].path = accepted[emitted[n][j]].path) =>
                (accepted[emitted[n][i]].raw = accepted[emitted[n][j]].raw)

\* C15: every event held by the worker, on the outbound queue or with the
\* batcher carries normalizePath of a raw path that the ignore filter let
\* through, and a raw path that is an editor artifact is never the path of
\* its event.
C15_NormalizedOnly ==
    \A e \in EventsOf(InHand \o events \o batch \o received) :
        /\ e.path = normalizePath(e.raw)
        /\ ~shouldIgnore(e.raw)
        /\ RulesMatching(e.raw) # {} => e.path # e.raw

\* the batcher holds an event for "a" that was reported as "a~"
C15_Witness ==
    \E i \in DOMAIN batch :
        /\ accepted[batch[i]].raw = <<"a", "~">>
        /\ accepted[batch[i]].path = <<"a">>

\* C16 (safety half): the events placed on the outbound queue so far, followed
\* by the one the worker holds, are exactly the events built for the accepted
\* notifications, each once and in order; a full queue makes the worker wait.
C16_NoneDropped ==
    /\ received \o events \o InHand = [n \in 1..Len(accepted) |-> n]
    /\ Len(events) <= EventsChanCap

\* C16: nothing is dropped, and a waiting worker places its event on the queue
\* as long as the consumer keeps receiving (or the process ends).
C16_Backpressure ==
    /\ []C16_NoneDropped
    /\ (wPc = "send") ~> (wPc # "send" \/ ~Alive)

\* the queue is full and the worker waits with the next event in its hand
C16_Witness ==
    /\ Len(events) = EventsChanCap
    /\ wPc = "send"
    /\ Len(accepted) = EventsChanCap + 1

\* C19: a step that receives an OS-level error leaves the worker in its loop,
\* and the worker leaves the loop only in a step taken with the watcher closed.
C19_ErrorsKeepLoop ==
    [][ /\ wErrs' # wErrs => wPc' = "select"
        /\ (wPc # "exited" /\ wPc' = "exited") => watcherClosed ]_vars

\* the worker has handled an error and is ready for the next notification
C19_Witness ==
    /\ wErrs = MaxErrors
    /\ wPc = "select"
    /\ ENABLED WatcherRecvPath

\* ------------------------------------------------------------ watch roots
\* C17: no directory is registered twice: no two successful calls of
\* w.watcher.Add name the same directory.
C17_AddedOnce ==
    \A i, j \in DOMAIN addCalls :
        (i # j /\ addCalls[i].ok /\ addCalls[j].ok) => addCalls[i].dir # addCalls[j].dir

\* C18: when New has returned after building its fsnotify watcher, it
\* returned no error and its loop has handled
\* every pattern: each recursive pattern had its Add call, whatever happened
\* to the patterns before it.
C18_SkipAndGoOn ==
    newPc = "returned" =>
        /\ ~newErr
        /\ patIdx = Len(watch) + 1
        /\ \A i \in DOMAIN watch :
              IsRecursive(watch[i]) => \E c \in DOMAIN addCalls : addCalls[c].pat = i

\* New returned without error and with nothing watched, after a failed Add
\* for the first pattern and a second pattern handled after it
C18_Witness ==
    /\ newPc = "returned"
    /\ ~newErr
    /\ addedDirs = {}
    /\ Len(watch) = 2
    /\ \E c \in DOMAIN addCalls : ~addCalls[c].ok /\ addCalls[c].pat = 1
    /\ \E c \in DOMAIN addCalls : addCalls[c].pat = 2

\* ------------------------------------------------------------ ReviewDispatcher
\* C20: a trigger whose file set is empty after the ignore filter causes no
\* diff fetch, no log tail and no generation request.
C20_EmptySetDiscarded ==
    (trigKind # "none" /\ keptFiles = {}) => (~diffFetched /\ ~logTailed /\ ~launched)

\* the exclusions the dispatcher is to apply: the basename matches an ignore
\* glob pattern, the file is the tool's log file, the file is in .git
Excluded(f, log, ignore) ==
    \/ \E pattern \in ignore : Match(pattern, Base(f))
    \/ f = log
    \/ Contains(f, <<"/", ".", "g", "i", "t", "/">>)
    \/ HasPrefix(f, <<".", "g", "i", "t", "/">>)

\* C21: the files handed to the diff provider are exactly the distinct paths of
\* the trigger that are not excluded.
C21_ExactFileSet ==
    diffFetched =>
        keptFiles = { f \in { trigFiles[i] : i \in DOMAIN trigFiles } :
                        ~Excluded(f, logFile, cfgIgnore) }

\* main is inside a call to the staging-area provider
Fetching == mainPc \in {"state", "diff"}

\* C22: every trigger that reaches the launch starts exactly one request, and
\* with requests in flight main, unless it is inside a fetch or returning, can
\* take the shutdown signal and the next tick.
C22_DetachedLaunch ==
    /\ reqCount = actionable
    /\ (inflight # {} /\ Alive /\ ~Fetching /\ ~done) =>
          /\ ENABLED MainSignal
          /\ ticks < MaxTicks => ENABLED GitTickBegin

\* two requests are in flight and main is back at its select
C22_Witness ==
    /\ Cardinality(inflight) >= 2
    /\ mainPc = "loop"
    /\ ticks < MaxTicks

\* C23: while a staged-state or diff fetch is in progress main can still take
\* the shutdown signal.
C23_FetchOffLoop == Fetching => ENABLED MainSignal

\* C25: after a cycle given up on a failed diff fetch, a tick that finds the
\* same staged hash again produces a trigger.
C25_RetriedAfterAbort ==
    (mainPc = "loop" /\ aborted # NoHash) => StagedChanged(FALSE, aborted, lastStagedHash)

\* the requests that have printed their result
PrintedReqs == { printed[i].req : i \in DOMAIN printed }

\* C26: every request prints at most once and has ended when it has printed,
\* every other launched request is still in flight; the step in which a task
\* prints ends that task alone and changes nothing of main.
C26_ErrorPrintedOnce ==
    /\ [](/\ \A i, j \in DOMAIN printed : i # j => printed[i].req # printed[j].req
          /\ PrintedReqs \cap inflight = {}
          /\ PrintedReqs \cup inflight = 1..reqCount)
    /\ [][printed' # printed =>
            /\ inflight' = inflight \ {printed'[Len(printed')].req}
            /\ UNCHANGED <<mainPc, lastStagedHash, reqCount, ticks>>]_vars

\* a request has printed an error while another one is in flight and main is
\* at its select
C26_Witness ==
    /\ \E i \in DOMAIN printed : printed[i].err
    /\ inflight # {}
    /\ mainPc = "loop"

\* C27: once main has taken the shutdown signal it returns and the process
\* ends, whether or not the requests in flight ever complete.
C27_ShutdownNoWait == (mainPc = "closing") ~> (mainPc = "exited")

\* the process has ended with a request still in flight
C27_Witness ==
    /\ mainPc = "exited"
    /\ inflight # {}

\* C24: a batch that sits in the batch channel is eventually taken out of it
\* by the main loop, unless the process ends first.
C24_BatchesReceived == (out # <<>>) ~> (out = <<>> \/ ~Alive)

\* C28: the event that brings the accumulator to maxBatchSize takes the
\* batcher straight to the send, whatever the timer says, and that send emits
\* the accumulator, empties it and re-arms the timer to the idle deadline; any
\* other event restarts the timer for a full debounce interval.
C28_SizeFirst ==
    /\ [][received' # received =>
            IF Len(batch) + 1 >= maxBatchSize
            THEN bPc' = "sendSize"
            ELSE /\ bPc' = "select"
                 /\ timer' = [left |-> debounce, c |-> FALSE, dur |-> debounce]]_vars
    /\ [][(bPc = "sendSize" /\ bPc' # "sendSize") =>
            /\ emitted' = Append(emitted, batch)
            /\ batch' = <<>>
            /\ timer' = [left |-> idleTimerDuration, c |-> FALSE,
                         dur |-> idleTimerDuration]]_vars

\* a size flush has just completed although the debounce timer had been
\* restarted by the event before
C28_Witness ==
    /\ last = "size"
    /\ bPc = "select"
    /\ batch = <<>>
    /\ emitted # <<>>
    /\ Len(emitted[Len(emitted)]) = maxBatchSize
    /\ timer = [left |-> idleTimerDuration, c |-> FALSE, dur |-> idleTimerDuration]

\* C29: the accumulator is below maxBatchSize except while the batcher is at
\* the size-triggered send, no emitted batch exceeds maxBatchSize, and no
\* received event is still unemitted once maxBatchSize further events have
\* been received.
C29_Bounded ==
    /\ bPc # "sendSize" => Len(batch) < maxBatchSize
    /\ bPc = "sendSize" => Len(batch) = maxBatchSize
    /\ \A i \in DOMAIN emitted : Len(emitted[i]) <= maxBatchSize
    /\ \A k \in DOMAIN received :
          k > Len(Flatten(emitted)) => Len(received) - k <= maxBatchSize - 1

\* in a rapid stream a full batch was emitted and the stream goes on
C29_Witness ==
    /\ rapid
    /\ Len(received) > maxBatchSize
    /\ Len(emitted) = 1
    /\ Len(emitted[1]) = maxBatchSize
    /\ batch # <<>>
    /\ sinceLast < debounce

\* every timer has been stopped or has run its function, and what the
\* functions sent has been forwarded
Settled ==
    /\ ~crashed
    /\ \A n \in 1..MaxFsEvents : timers[n].st \notin {"armed", "fired"}
    /\ debounceChan = <<>>

\* C30: once everything has settled, each path has got exactly one FileEvent
\* for each of its bursts (notifications less than debounce apart).
C30_OneEventPerBurst ==
    Settled => \A p \in DebKeys : Count(p, fileEvents) = bursts[p]

\* the batcher is at its select, waiting for its next input
Waiting == bPc = "select"

\* C33: while the batcher waits, the accumulator is empty exactly when the
\* timer was last set to the idle duration, and non-empty exactly when it
\* was set to debounce at the moment of the most recent event (so that it
\* expires debounce after it); an expiry handled with an empty accumulator
\* emits nothing and sets the timer to the idle duration again.
C33_TimerMatchesBatch ==
    /\ [](Waiting =>
            /\ batch = <<>> <=> timer.dur = idleTimerDuration
            /\ batch # <<>> <=>
                  /\ timer.dur = debounce
                  /\ timer.left = debounce - sinceLast
                  /\ timer.c <=> sinceLast = debounce)
    /\ [][(Waiting /\ batch = <<>> /\ timer.c /\ ~timer'.c /\ received' = received
              /\ bPc' = "select") =>
            /\ emitted' = emitted
            /\ out' = out
            /\ batch' = <<>>
            /\ timer' = [left |-> idleTimerDuration, c |-> FALSE,
                         dur |-> idleTimerDuration]]_vars

\* the idle timer expired on an empty accumulator and was set to idle again,
\* after a debounce flush
C33_Witness ==
    /\ Waiting
    /\ last = "timerNoop"
    /\ batch = <<>>
    /\ Len(emitted) >= 1
    /\ timer.dur = idleTimerDuration
    /\ timer.left = idleTimerDuration

\* C35: the batcher starts a timer-triggered flush only when its timer has
\* expired a full debounce interval after the most recent event; an event
\* leaves no expiry pending behind it, so an expiry that was pending when
\* the event arrived cannot flush it.
C35_NoPrematureFlush ==
    /\ [][(bPc # "sendTimer" /\ bPc' = "sendTimer") =>
            /\ timer.c
            /\ sinceLast = debounce]_vars
    /\ [][received' # received => (bPc' = "sendSize" \/ ~timer'.c)]_vars
    /\ [][(bPc = "sendSize" /\ bPc' = "select") => ~timer'.c]_vars

\* two events a full debounce interval apart are both pending and nothing was
\* flushed: the expiry after the first one was still pending when the second
\* one arrived, and was discarded
C35_Witness ==
    /\ ~rapid
    /\ emitted = <<>>
    /\ Len(batch) >= 2
    /\ Waiting
    /\ ~timer.c

\* C34: a path whose basename is the single character "#" comes back from
\* normalizePath unchanged.
C34_SingleHashUnchanged ==
    (pathPc # "start" /\ Base(path) = Hash) => normalized = path

\* C38: no event the worker has built carries a path whose basename matches
\* a pattern of config.Ignore.
C38_NoIgnoredPath ==
    \A e \in EventsOf(InHand \o events \o batch \o received) : ~shouldIgnore(e.path)

\* C40: a file of the trigger that the filter has left out is in .git, is
\* the configured log file or matches a configured ignore pattern.
C40_OnlyThreeReasons ==
    trigKind # "none" =>
        \A i \in DOMAIN trigFiles :
            trigFiles[i] \notin keptFiles => Excluded(trigFiles[i], logFile, cfgIgnore)

\* event e is on the watcher's outbound queue
Queued(e) == \E i \in DOMAIN events : events[i] = e

\* event e is in a batch the batcher has emitted
InEmitted(e) == Count(e, Flatten(emitted)) > 0

\* C37: an event that is on the outbound queue before the shutdown signal is
\* in an emitted batch by the time the batcher has returned.
C37_NoneLostAtShutdown ==
    \A e \in 1..MaxEvents :
        []((Queued(e) /\ ~done) => [](bPc = "exited" => InEmitted(e)))

\* a step of the batcher
BatcherStep ==
    \/ BatcherDone
    \/ BatcherSendDone
    \/ BatcherEvent
    \/ BatcherSendSize
    \/ BatcherTimer
    \/ BatcherSendTimer

\* C36: once done is closed, the batcher that has not returned yet can take
\* a step towards its return, whatever the state of its output channel
\* (nothing ever receives from that channel, so a batcher that cannot step
\* never will).
C36_BatcherCanFinish ==
    (done /\ Alive /\ bPc # "exited") => ENABLED BatcherStep

\* the last n of a sequence of lines
LastLines(lines, n) ==
    LET k == Min(n, Len(lines))
    IN [i \in 1..k |-> lines[Len(lines) - k + i]]

\* C31: for a log file that can be opened and read Tail returns no error and
\* the last min(N, L) of its L lines, in order, joined by newlines; it
\* returns an error only for a file that cannot be opened or read.
C31_TailLastLines ==
    tailPc = "returned" =>
        /\ logState = "ok" =>
              /\ ~tailErr
              /\ tailResult = JoinNewline(LastLines(ScanLines(logContent), cfgLines))
        /\ tailErr => logState # "ok"

\* ---- C32
\* the content is empty or white space only
Blank(c) == \A i \in DOMAIN c : IsSpace(c[i])
\* two strings are the same up to letter case
SameFold(a, b) == Len(a) = Len(b) /\ \A i \in DOMAIN a : ToLowerChar(a[i]) = ToLowerChar(b[i])
\* the first line of c that is not blank, without the white space around it
FirstLine(c) == Header(SplitNewline(c))
\* s begins with t, up to letter case
BeginsFold(s, t) == Len(s) >= Len(t) /\ SameFold(SubSeq(s, 1, Len(t)), t)
\* c contains a no-issues keyword, up to letter case
HasKeyword(c) ==
    \E k \in noIssuesKeywords : \E i \in 0..(Len(c) - Len(k)) :
        SameFold(SubSeq(c, i + 1, i + Len(k)), k)

\* C32 as stated: parseFixResponse returns an error, with needFix false and
\* an empty review, exactly when the content is blank; otherwise the first
\* non-empty line, trimmed, decides when it is 'NEED FIX: YES' (needFix
\* true) or 'NEED FIX: NO' (needFix false) up to letter case, and with any
\* other first line needFix is false exactly when the content contains a
\* no-issues keyword
C32_HeaderCompared ==
    fixPc = "returned" =>
        /\ fixErr <=> Blank(fixContent)
        /\ fixErr => ~needFix /\ review = <<>>
        /\ ~fixErr =>
             IF SameFold(FirstLine(fixContent), NeedFixYes) THEN needFix
             ELSE IF SameFold(FirstLine(fixContent), NeedFixNo) THEN ~needFix
             ELSE ~needFix <=> HasKeyword(fixContent)

\* C32 amended: as above, but the first non-empty line decides when it
\* BEGINS WITH 'NEED FIX: YES' or 'NEED FIX: NO' up to letter case, whatever
\* follows on that line; the keywords are looked for only when it begins
\* with neither
C32_HeaderPrefix ==
    fixPc = "returned" =>
        /\ fixErr <=> Blank(fixContent)
        /\ fixErr => ~needFix /\ review = <<>>
        /\ ~fixErr =>
             IF BeginsFold(FirstLine(fixContent), NeedFixYes) THEN needFix
             ELSE IF BeginsFold(FirstLine(fixContent), NeedFixNo) THEN ~needFix
             ELSE ~needFix <=> HasKeyword(fixContent)

\* a response whose first line begins with the NO header and goes on, with
\* no keyword anywhere, was parsed as needing no fix
C32_Witness ==
    /\ fixPc = "returned"
    /\ ~fixErr
    /\ BeginsFold(FirstLine(fixContent), NeedFixNo)
    /\ ~SameFold(FirstLine(fixContent), NeedFixNo)
    /\ ~HasKeyword(fixContent)
    /\ ~needFix

\* ---- C39
\* the spinner has been told to stop: the value is on spinnerChan or the
\* spinner has taken it
ToldToStop == spinnerChan # <<>> \/ spinPc = "returned"
\* the responses delivered so far: those in the channel and those received
Delivered == Len(respChan) + Cardinality({ i \in DOMAIN got : got[i] # "closed" })

====
